---- MODULE Spec2Model ----
(***************************************************************************)
(* A model of the content-marketing funnel: the relational store with its  *)
(* foreign keys, the admin console's cascade deletes, the reader-side      *)
(* funnel pages and the authoring forms.                                   *)
(***************************************************************************)
EXTENDS Integers, Sequences, FiniteSets, TLC

(***************************************************************************)
(* Bounds of the model.                                                    *)
(***************************************************************************)
NumBlogs == 2
NumSearches == 2
MaxRowsPerSearch == 1
NumAdmins == 1

(* SQL NULL in a nullable reference column. *)
Null == 0

BlogIds == 1..NumBlogs
SearchIds == 1..NumSearches

VARIABLES
  db,        \* the store: one set of rows per table
  admin,     \* per admin session: the handler in flight, its locals, its last toast
  reader,    \* the reader's browser tab: the page shown and its component state
  form,      \* the BlogsManager create form
  wizard,    \* the BlogCreationWizard component
  service,   \* the generate-blog function: the request it is serving
  manager,   \* the WebResultsManager component: its AI generation panel
  download   \* the file the last export of BlogsManager handed to the browser

vars == <<db, admin, reader, form, wizard, service, manager, download>>

(* What the admin console's delete handlers never touch. *)
outsideAdmin == <<reader, form, wizard, service, manager, download>>

(* What the reader's pages never touch, the store apart. *)
outsideFunnel == <<admin, form, wizard, service, manager, download>>

(***************************************************************************)
(* The store.  Rows keep the columns the handlers read or filter on.       *)
(***************************************************************************)
SearchRow(r, b) ==
  [id |-> r, blog_id |-> b, search_text |-> r, order_index |-> 0, wr |-> 1]

WebResultRow(i, r) ==
  [id |-> i, related_search_id |-> r, url |-> i, order_index |-> 0,
   is_sponsored |-> FALSE]

PreLandingRow(i, r, d) ==
  [id |-> i, related_search_id |-> r, destination_url |-> d]

AnalyticsRow(i, b, r) ==
  [id |-> i, blog_id |-> b, related_search_id |-> r, session_id |-> Null,
   ip_address |-> "unknown", country |-> "unknown"]

EmailRow(i, r) ==
  [id |-> i, related_search_id |-> r, session_id |-> Null, ip_address |-> "unknown"]

Ids(rows) == {x.id : x \in rows}

(* Every foreign key of the schema points at an existing row (or is NULL). *)
ForeignKeysHold(d) ==
  /\ \A x \in d.related_searches : x.blog_id \in d.blogs
  /\ \A x \in d.web_results : x.related_search_id \in Ids(d.related_searches)
  /\ \A x \in d.pre_landing_config : x.related_search_id \in Ids(d.related_searches)
  /\ \A x \in d.analytics_events :
       /\ x.blog_id \in d.blogs \cup {Null}
       /\ x.related_search_id \in Ids(d.related_searches) \cup {Null}
  /\ \A x \in d.email_submissions :
       x.related_search_id \in Ids(d.related_searches) \cup {Null}

(* The ids the rows that reference search r carry in the initial stores. *)
ChildIds(r) == {(r - 1) * MaxRowsPerSearch + k : k \in 1..MaxRowsPerSearch}

ChildRefs ==
  {c \in (1..(NumSearches * MaxRowsPerSearch)) \X SearchIds : c[1] \in ChildIds(c[2])}

(* The store states the admin handlers are started from: any set of rows  *)
(* over the bounded ids that satisfies the schema's keys.                 *)
StoreStates ==
  { d \in
      { [blogs |-> BlogIds,
         related_searches |-> {SearchRow(r, owner[r]) : r \in present},
         web_results |-> {WebResultRow(c[1], c[2]) : c \in web},
         pre_landing_config |-> {PreLandingRow(r, r, Null) : r \in pl},
         analytics_events |->
           {AnalyticsRow(c[1], Null, c[2]) : c \in an}
             \cup {AnalyticsRow(NumSearches * MaxRowsPerSearch + b, b, Null) : b \in ban},
         email_submissions |-> {EmailRow(c[1], c[2]) : c \in em}] :
          present \in SUBSET SearchIds, owner \in [SearchIds -> BlogIds],
          web \in SUBSET ChildRefs, pl \in SUBSET SearchIds,
          an \in SUBSET ChildRefs, ban \in SUBSET BlogIds,
          em \in SUBSET ChildRefs } :
      ForeignKeysHold(d) }

(***************************************************************************)
(* SQL statements.  A DELETE removes the rows named and, through the       *)
(* schema's ON DELETE CASCADE keys, the rows that reference them; a key    *)
(* declared without an ON DELETE action rejects the whole statement while  *)
(* a referencing row exists.  Each statement yields the new store and      *)
(* whether the store reported an error.                                    *)
(***************************************************************************)
Ok(d) == [db |-> d, error |-> FALSE]
Rejected(d) == [db |-> d, error |-> TRUE]

DeleteEmailSubmissions(d, rids) ==
  Ok([d EXCEPT !.email_submissions = {x \in @ : x.related_search_id \notin rids}])

DeleteAnalyticsOfSearches(d, rids) ==
  Ok([d EXCEPT !.analytics_events = {x \in @ : x.related_search_id \notin rids}])

DeleteAnalyticsOfBlog(d, b) ==
  Ok([d EXCEPT !.analytics_events = {x \in @ : x.blog_id # b}])

DeletePreLandingConfigs(d, rids) ==
  Ok([d EXCEPT !.pre_landing_config = {x \in @ : x.related_search_id \notin rids}])

DeleteWebResults(d, rids) ==
  Ok([d EXCEPT !.web_results = {x \in @ : x.related_search_id \notin rids}])

(* DELETE FROM related_searches for the rows rids.  web_results,           *)
(* pre_landing_config and analytics_events cascade; email_submissions      *)
(* references related_searches with no ON DELETE action.                   *)
DeleteRelatedSearches(d, rids) ==
  IF \E e \in d.email_submissions : e.related_search_id \in rids
  THEN Rejected(d)
  ELSE Ok([d EXCEPT
             !.related_searches = {x \in @ : x.id \notin rids},
             !.web_results = {x \in @ : x.related_search_id \notin rids},
             !.pre_landing_config = {x \in @ : x.related_search_id \notin rids},
             !.analytics_events = {x \in @ : x.related_search_id \notin rids}])

(* DELETE FROM blogs WHERE id = b: related_searches and analytics_events   *)
(* cascade, and the cascade into related_searches is itself subject to     *)
(* the email_submissions key.                                              *)
DeleteBlog(d, b) ==
  LET rids == {x.id : x \in {y \in d.related_searches : y.blog_id = b}}
      below == DeleteRelatedSearches(d, rids)
  IN IF below.error
     THEN Rejected(d)
     ELSE Ok([below.db EXCEPT
                !.blogs = @ \ {b},
                !.analytics_events = {x \in @ : x.blog_id # b}])

(* SELECT id FROM related_searches WHERE blog_id = b *)
SelectSearchIdsOfBlog(d, b) ==
  {x.id : x \in {y \in d.related_searches : y.blog_id = b}}

(***************************************************************************)
(* The admin console.  A session runs one handler at a time; every await   *)
(* of a handler is one step.  kind, id and owned record what the handler   *)
(* in flight (or the one that ran last) was asked to delete and which      *)
(* searches its blog owned when it started.  For a bulk delete,            *)
(* selectedIds is the selection it was started with, queue the ids the     *)
(* loop has still to take, done the ids it has taken, failedIds those      *)
(* whose sequence had a call that failed, and clean whether every call of  *)
(* the sequence in flight succeeded so far.                                *)
(***************************************************************************)
Admins == 1..NumAdmins
Operator == 1

IdleAdmin ==
  [pc |-> "idle", kind |-> "none", id |-> Null, searchIds |-> {}, owned |-> {},
   refs |-> {}, toast |-> "none",
   selectedIds |-> {}, queue |-> <<>>, done |-> <<>>, failedIds |-> {}, clean |-> TRUE]

(* The child tables that hold a row referencing one of the searches rids,  *)
(* and "blog" when an analytics event references blog b.                   *)
ReferencingTables(d, rids, b) ==
  {t \in {"email_submissions", "analytics_events", "pre_landing_config", "web_results"} :
     \E x \in d[t] : x.related_search_id \in rids}
  \cup (IF \E x \in d.analytics_events : x.blog_id = b /\ b # Null THEN {"blog"} ELSE {})

Goto(a, pc) == admin' = [admin EXCEPT ![a].pc = pc] /\ UNCHANGED outsideAdmin

(* BlogsManager.handleDelete: confirm, then fetch the ids of the blog's    *)
(* related searches; the four child deletes run only for a non-empty list. *)
BM_handleDelete(a, id) ==
  /\ admin[a].pc = "idle"
  /\ id \in db.blogs
  /\ LET searchIds == SelectSearchIdsOfBlog(db, id)
     IN admin' = [admin EXCEPT ![a] =
          [pc |-> IF searchIds # {} THEN "bm_email_submissions" ELSE "bm_blog_analytics",
           kind |-> "BM_handleDelete", id |-> id, searchIds |-> searchIds,
           owned |-> {x.id : x \in {y \in db.related_searches : y.blog_id = id}},
           refs |-> ReferencingTables(db, {x.id : x \in {y \in db.related_searches : y.blog_id = id}}, id),
           toast |-> "none",
           selectedIds |-> {}, queue |-> <<>>, done |-> <<>>, failedIds |-> {},
           clean |-> TRUE]]
  /\ UNCHANGED <<db, outsideAdmin>>

BM_deleteEmailSubmissions_skipped(a) ==
  /\ admin[a].pc = "bm_email_submissions"
  /\ UNCHANGED db
  /\ Goto(a, "bm_analytics_events")

BM_deleteEmailSubmissions(a) ==
  /\ admin[a].pc = "bm_email_submissions"
  /\ db' = DeleteEmailSubmissions(db, admin[a].searchIds).db
  /\ Goto(a, "bm_analytics_events")

BM_deleteAnalyticsEvents(a) ==
  /\ admin[a].pc = "bm_analytics_events"
  /\ db' = DeleteAnalyticsOfSearches(db, admin[a].searchIds).db
  /\ Goto(a, "bm_pre_landing_config")

BM_deletePreLandingConfig(a) ==
  /\ admin[a].pc = "bm_pre_landing_config"
  /\ db' = DeletePreLandingConfigs(db, admin[a].searchIds).db
  /\ Goto(a, "bm_web_results")

BM_deleteWebResults_skipped(a) ==
  /\ admin[a].pc = "bm_web_results"
  /\ UNCHANGED db
  /\ Goto(a, "bm_blog_analytics")

BM_deleteWebResults(a) ==
  /\ admin[a].pc = "bm_web_results"
  /\ db' = DeleteWebResults(db, admin[a].searchIds).db
  /\ Goto(a, "bm_blog_analytics")

BM_deleteBlogAnalytics(a) ==
  /\ admin[a].pc = "bm_blog_analytics"
  /\ db' = DeleteAnalyticsOfBlog(db, admin[a].id).db
  /\ Goto(a, "bm_related_searches")

(* .delete().eq('blog_id', id) on related_searches; its error is not read. *)
BM_deleteRelatedSearches(a) ==
  /\ admin[a].pc = "bm_related_searches"
  /\ db' = DeleteRelatedSearches(db, SelectSearchIdsOfBlog(db, admin[a].id)).db
  /\ Goto(a, "bm_blogs")

(* The last delete is the only one whose error the handler reads. *)
BM_deleteBlog(a) ==
  /\ admin[a].pc = "bm_blogs"
  /\ LET res == DeleteBlog(db, admin[a].id)
     IN /\ db' = res.db
        /\ admin' = [admin EXCEPT ![a].pc = "idle",
                                  ![a].toast = IF res.error THEN "error" ELSE "success"]
        /\ UNCHANGED outsideAdmin

(* RelatedSearchesManager.handleDelete (src/unnamed/part_001): the four    *)
(* child deletes by related_search_id, then the row itself.                *)
RS_handleDelete(a, id) ==
  /\ admin[a].pc = "idle"
  /\ id \in Ids(db.related_searches)
  /\ db' = DeleteEmailSubmissions(db, {id}).db
  /\ admin' = [admin EXCEPT ![a] =
       [pc |-> "rs_analytics_events", kind |-> "RS_handleDelete", id |-> id,
        searchIds |-> {id}, owned |-> {id},
        refs |-> ReferencingTables(db, {id}, Null), toast |-> "none",
        selectedIds |-> {}, queue |-> <<>>, done |-> <<>>, failedIds |-> {},
        clean |-> TRUE]]
  /\ UNCHANGED outsideAdmin

RS_deleteAnalyticsEvents(a) ==
  /\ admin[a].pc = "rs_analytics_events"
  /\ db' = DeleteAnalyticsOfSearches(db, {admin[a].id}).db
  /\ Goto(a, "rs_pre_landing_config")

RS_deletePreLandingConfig(a) ==
  /\ admin[a].pc = "rs_pre_landing_config"
  /\ db' = DeletePreLandingConfigs(db, {admin[a].id}).db
  /\ Goto(a, "rs_web_results")

RS_deleteWebResults(a) ==
  /\ admin[a].pc = "rs_web_results"
  /\ db' = DeleteWebResults(db, {admin[a].id}).db
  /\ Goto(a, "rs_related_searches")

RS_deleteRelatedSearch(a) ==
  /\ admin[a].pc = "rs_related_searches"
  /\ LET res == DeleteRelatedSearches(db, {admin[a].id})
     IN /\ db' = res.db
        /\ admin' = [admin EXCEPT ![a].pc = "idle",
                                  ![a].toast = IF res.error THEN "error" ELSE "success"]
        /\ UNCHANGED outsideAdmin

(* RelatedSearchesManager.handleDelete                                     *)
(* (src/src/components/admin/RelatedSearchesManager.tsx): the row is       *)
(* deleted directly and the store's keys are left to do the rest.          *)
RSM_handleDelete(a, id) ==
  /\ admin[a].pc = "idle"
  /\ id \in Ids(db.related_searches)
  /\ LET res == DeleteRelatedSearches(db, {id})
     IN /\ db' = res.db
        /\ admin' = [admin EXCEPT ![a] =
             [pc |-> "idle", kind |-> "RSM_handleDelete", id |-> id,
              searchIds |-> {}, owned |-> {id},
              refs |-> ReferencingTables(db, {id}, Null),
              toast |-> IF res.error THEN "error" ELSE "success",
              selectedIds |-> {}, queue |-> <<>>, done |-> <<>>, failedIds |-> {},
              clean |-> TRUE]]
        /\ UNCHANGED outsideAdmin

(***************************************************************************)
(* The bulk deletes.  A store call of a bulk loop succeeds, comes back     *)
(* with an error the loop does not read, or throws into the catch block of *)
(* the id in flight.                                                       *)
(***************************************************************************)
MaxCallFailures == 1

CallOutcomes == {"ok", "error", "throws"}

(* The orders in which for (const id of selectedIds) can take the ids. *)
Orders(ids) ==
  {q \in [1..Cardinality(ids) -> ids] : \A i, j \in 1..Cardinality(ids) : i # j => q[i] # q[j]}

MayFail(a, outcome) ==
  outcome # "ok" => admin[a].clean /\ Cardinality(admin[a].failedIds) < MaxCallFailures

(* A call whose exception leaves the loop instead of the iteration. *)
BulkCall_abortsLoop(a, res, outcome, next, loop) ==
  /\ MayFail(a, outcome)
  /\ db' = IF outcome = "ok" THEN res.db ELSE db
  /\ admin' = [admin EXCEPT
       ![a].pc = IF outcome = "throws" THEN loop ELSE next,
       ![a].queue = IF outcome = "throws" THEN <<>> ELSE @,
       ![a].clean = @ /\ outcome = "ok" /\ ~res.error,
       ![a].failedIds = IF outcome = "ok" /\ ~res.error THEN @ ELSE @ \cup {admin[a].id}]
  /\ UNCHANGED outsideAdmin

(* One awaited call of the sequence of the id in flight: res is what the   *)
(* statement does to the store when the call gets through.                 *)
BulkCall(a, res, outcome, next, loop) ==
  /\ MayFail(a, outcome)
  /\ db' = IF outcome = "ok" THEN res.db ELSE db
  /\ admin' = [admin EXCEPT
       ![a].pc = IF outcome = "throws" THEN loop ELSE next,
       ![a].clean = @ /\ outcome = "ok" /\ ~res.error,
       ![a].failedIds = IF outcome = "ok" /\ ~res.error THEN @ ELSE @ \cup {admin[a].id}]
  /\ UNCHANGED outsideAdmin

(* BlogsManager.handleDeleteSelected: confirm, then the loop. *)
BM_handleDeleteSelected(a, order) ==
  /\ admin[a].pc = "idle"
  /\ order # <<>>
  /\ admin' = [admin EXCEPT ![a] =
       [IdleAdmin EXCEPT !.pc = "bms_loop", !.kind = "BM_handleDeleteSelected",
                         !.selectedIds = {order[k] : k \in 1..Len(order)},
                         !.queue = order]]
  /\ UNCHANGED <<db, outsideAdmin>>

(* BlogsManager.handleDeleteSingle, entered by the loop for its next id:   *)
(* the select of the blog's search ids, whose data is null on an error.    *)
BM_handleDeleteSingle(a, outcome) ==
  /\ admin[a].pc = "bms_loop"
  /\ admin[a].queue # <<>>
  /\ outcome # "ok" => Cardinality(admin[a].failedIds) < MaxCallFailures
  /\ LET id == Head(admin[a].queue)
         searchIds == IF outcome = "ok" THEN SelectSearchIdsOfBlog(db, id) ELSE {}
     IN admin' = [admin EXCEPT
          ![a].pc = IF outcome = "throws" THEN "bms_loop"
                    ELSE IF searchIds # {} THEN "bms_email_submissions"
                    ELSE "bms_blog_analytics",
          ![a].id = id,
          ![a].queue = Tail(@),
          ![a].done = Append(@, id),
          ![a].searchIds = searchIds,
          ![a].owned = SelectSearchIdsOfBlog(db, id),
          ![a].refs = ReferencingTables(db, SelectSearchIdsOfBlog(db, id), id),
          ![a].clean = outcome = "ok",
          ![a].failedIds = IF outcome = "ok" THEN @ ELSE @ \cup {id}]
  /\ UNCHANGED <<db, outsideAdmin>>

BMS_deleteEmailSubmissions(a, outcome) ==
  /\ admin[a].pc = "bms_email_submissions"
  /\ BulkCall(a, DeleteEmailSubmissions(db, admin[a].searchIds), outcome,
              "bms_analytics_events", "bms_loop")

BMS_deleteAnalyticsEvents(a, outcome) ==
  /\ admin[a].pc = "bms_analytics_events"
  /\ BulkCall(a, DeleteAnalyticsOfSearches(db, admin[a].searchIds), outcome,
              "bms_pre_landing_config", "bms_loop")

BMS_deletePreLandingConfig(a, outcome) ==
  /\ admin[a].pc = "bms_pre_landing_config"
  /\ BulkCall(a, DeletePreLandingConfigs(db, admin[a].searchIds), outcome,
              "bms_web_results", "bms_loop")

BMS_deleteWebResults(a, outcome) ==
  /\ admin[a].pc = "bms_web_results"
  /\ BulkCall(a, DeleteWebResults(db, admin[a].searchIds), outcome,
              "bms_blog_analytics", "bms_loop")

BMS_deleteBlogAnalytics(a, outcome) ==
  /\ admin[a].pc = "bms_blog_analytics"
  /\ BulkCall(a, DeleteAnalyticsOfBlog(db, admin[a].id), outcome,
              "bms_related_searches", "bms_loop")

BMS_deleteRelatedSearches(a, outcome) ==
  /\ admin[a].pc = "bms_related_searches"
  /\ BulkCall(a, DeleteRelatedSearches(db, SelectSearchIdsOfBlog(db, admin[a].id)),
              outcome, "bms_blogs", "bms_loop")

BMS_deleteBlog(a, outcome) ==
  /\ admin[a].pc = "bms_blogs"
  /\ BulkCall(a, DeleteBlog(db, admin[a].id), outcome, "bms_loop", "bms_loop")

(* After the loop: the success toast, whatever the calls answered. *)
BM_handleDeleteSelected_end(a) ==
  /\ admin[a].pc = "bms_loop"
  /\ admin[a].queue = <<>>
  /\ admin' = [admin EXCEPT ![a].pc = "idle", ![a].toast = "success"]
  /\ UNCHANGED <<db, outsideAdmin>>

(* handleDeleteSelected of the related searches (src/unnamed/part_001). *)
RS_handleDeleteSelected(a, order) ==
  /\ admin[a].pc = "idle"
  /\ order # <<>>
  /\ admin' = [admin EXCEPT ![a] =
       [IdleAdmin EXCEPT !.pc = "rss_loop", !.kind = "RS_handleDeleteSelected",
                         !.selectedIds = {order[k] : k \in 1..Len(order)},
                         !.queue = order]]
  /\ UNCHANGED <<db, outsideAdmin>>

(* The loop takes its next id and issues the first delete for it. *)
RSS_deleteEmailSubmissions(a, outcome) ==
  /\ admin[a].pc = "rss_loop"
  /\ admin[a].queue # <<>>
  /\ outcome # "ok" => Cardinality(admin[a].failedIds) < MaxCallFailures
  /\ LET id == Head(admin[a].queue)
     IN /\ db' = IF outcome = "ok" THEN DeleteEmailSubmissions(db, {id}).db ELSE db
        /\ admin' = [admin EXCEPT
             ![a].pc = IF outcome = "throws" THEN "rss_loop" ELSE "rss_analytics_events",
             ![a].id = id,
             ![a].queue = Tail(@),
             ![a].done = Append(@, id),
             ![a].searchIds = {id},
             ![a].owned = {id},
             ![a].refs = ReferencingTables(db, {id}, Null),
             ![a].clean = outcome = "ok",
             ![a].failedIds = IF outcome = "ok" THEN @ ELSE @ \cup {id}]
  /\ UNCHANGED outsideAdmin

RSS_deleteAnalyticsEvents(a, outcome) ==
  /\ admin[a].pc = "rss_analytics_events"
  /\ BulkCall(a, DeleteAnalyticsOfSearches(db, {admin[a].id}), outcome,
              "rss_pre_landing_config", "rss_loop")

RSS_deletePreLandingConfig(a, outcome) ==
  /\ admin[a].pc = "rss_pre_landing_config"
  /\ BulkCall(a, DeletePreLandingConfigs(db, {admin[a].id}), outcome,
              "rss_web_results", "rss_loop")

RSS_deleteWebResults(a, outcome) ==
  /\ admin[a].pc = "rss_web_results"
  /\ BulkCall(a, DeleteWebResults(db, {admin[a].id}), outcome,
              "rss_related_searches", "rss_loop")

RSS_deleteRelatedSearch(a, outcome) ==
  /\ admin[a].pc = "rss_related_searches"
  /\ BulkCall(a, DeleteRelatedSearches(db, {admin[a].id}), outcome, "rss_loop", "rss_loop")

RS_handleDeleteSelected_end(a) ==
  /\ admin[a].pc = "rss_loop"
  /\ admin[a].queue = <<>>
  /\ admin' = [admin EXCEPT ![a].pc = "idle", ![a].toast = "success"]
  /\ UNCHANGED <<db, outsideAdmin>>

(***************************************************************************)
(* The reader-side funnel: the web-results page of one related search and  *)
(* the pre-landing page it links to.  Both pages exist in two builds.      *)
(***************************************************************************)
NumResults == 2
MaxOrderIndex == 1
MaxTracked == 1
NumSessionIds == 2

ResultIds == 1..NumResults
StoredUrl == NumResults + 1
Urls == 1..StoredUrl
Builds == {1, 2}

(* The stores the reader browses: one blog with one related search, any    *)
(* set of web results for it and at most one pre-landing config, whose     *)
(* destination_url is NULL or a URL that no web result has.                *)
FunnelStores ==
  { [blogs |-> {1},
     related_searches |-> {SearchRow(1, 1)},
     web_results |->
       {[WebResultRow(i, 1) EXCEPT !.order_index = o[i], !.is_sponsored = s[i]] :
          i \in present},
     pre_landing_config |-> pl,
     analytics_events |-> {},
     email_submissions |-> {}] :
      present \in SUBSET ResultIds, o \in [ResultIds -> 0..MaxOrderIndex],
      s \in [ResultIds -> BOOLEAN],
      pl \in {{}} \cup {{PreLandingRow(1, 1, d)} : d \in {Null, StoredUrl}} }

NextId(rows) ==
  LET ids == Ids(rows)
  IN IF ids = {} THEN 1 ELSE 1 + CHOOSE m \in ids : \A k \in ids : k <= m

(* .insert() on a tracking table; when the store fails the call the error  *)
(* is logged to the console and nothing is written.                        *)
InsertAnalyticsEvent(d, b, r, sessionId, ipAddress, country, ok) ==
  IF ok
  THEN [d EXCEPT !.analytics_events =
          @ \cup {[AnalyticsRow(NextId(@), b, r) EXCEPT
                     !.session_id = sessionId, !.ip_address = ipAddress,
                     !.country = country]}]
  ELSE d

InsertEmailSubmission(d, r, sessionId, ipAddress, ok) ==
  IF ok
  THEN [d EXCEPT !.email_submissions =
          @ \cup {[EmailRow(NextId(@), r) EXCEPT
                     !.session_id = sessionId, !.ip_address = ipAddress]}]
  ELSE d

(* The values Date.now() and Math.random() can give a new session id. *)
SessionIds == 1..NumSessionIds

getSessionId_alwaysNew(storage, fresh) == [sessionId |-> fresh, storage |-> fresh]

(* getSessionId: the id kept in sessionStorage, made and stored when there *)
(* is none; storage is sessionStorage's 'session_id' item after the call.  *)
getSessionId(storage, fresh) ==
  IF storage # Null THEN [sessionId |-> storage, storage |-> storage]
  ELSE [sessionId |-> fresh, storage |-> fresh]

(* What the lookup services answer when they answer. *)
IpAddress == "203.0.113.7"
CountryName == "Freedonia"

(* getIpAddress: 'unknown' when the fetch or its json() throws. *)
getIpAddress(ipOk) == IF ipOk THEN IpAddress ELSE "unknown"

(* getCountry: 'unknown' when the lookup throws or names no country, which *)
(* is what it does for the ip 'unknown'.                                   *)
getCountry(ip, countryOk) ==
  IF countryOk /\ ip # "unknown" THEN CountryName ELSE "unknown"

(* SELECT * FROM web_results WHERE related_search_id = r ORDER BY          *)
(* order_index: every arrangement of the rows with order_index             *)
(* non-decreasing (the store is free in how it breaks ties).               *)
SelectWebResultsOrdered(d, r) ==
  LET rows == {x \in d.web_results : x.related_search_id = r}
      n == Cardinality(rows)
  IN { q \in [1..n -> rows] :
         /\ \A i, j \in 1..n : i # j => q[i] # q[j]
         /\ \A i, j \in 1..n : i < j => q[i].order_index <= q[j].order_index }

(* The comparator handed to Array.prototype.sort. *)
compare(a, b) ==
  IF a.is_sponsored /\ ~b.is_sponsored THEN -1
  ELSE IF ~a.is_sponsored /\ b.is_sponsored THEN 1
  ELSE a.order_index - b.order_index

(* Array.prototype.sort is a stable sort: x goes behind the last element   *)
(* that does not compare greater than it.                                  *)
RECURSIVE SortedInsert(_, _)
SortedInsert(q, x) ==
  IF q = <<>> THEN <<x>>
  ELSE IF compare(q[Len(q)], x) <= 0 THEN Append(q, x)
  ELSE Append(SortedInsert(SubSeq(q, 1, Len(q) - 1), x), q[Len(q)])

RECURSIVE sort(_)
sort(q) ==
  IF q = <<>> THEN <<>>
  ELSE SortedInsert(sort(SubSeq(q, 1, Len(q) - 1)), q[Len(q)])

(* useState<PreLandingConfig | null>(null) *)
NoConfig == PreLandingRow(Null, Null, Null)

(* A trackEvent call in flight: getSessionId has run, the lookups have not. *)
TrackEventCall(eventType, relatedSearchId, sessionId) ==
  [event_type |-> eventType, related_search_id |-> relatedSearchId,
   session_id |-> sessionId]

(* No trackEvent call has ended yet. *)
NoEvent ==
  [event_type |-> "none", ipOk |-> TRUE, countryOk |-> TRUE, attempted |-> FALSE,
   ok |-> FALSE, id |-> Null]

(* A tab freshly opened on /web-results/:searchId, before its effects run. *)
(* wrBuild and plBuild say which build of each page the tab has loaded.    *)
OpenedTab(searchId, wrBuild, plBuild) ==
  [page |-> "web_results", searchId |-> searchId,
   wrBuild |-> wrBuild, plBuild |-> plBuild,
   fetched |-> FALSE, webResults |-> <<>>,
   sessionStorage |-> Null, \* sessionStorage's 'session_id' item
   viewed |-> FALSE,        \* the mount effect has called trackPageView
   pending |-> <<>>,        \* trackEvent calls in flight, with their arguments
   lastEvent |-> NoEvent,   \* how the trackEvent call that ended last went
   via |-> "none",          \* how the pre-landing page was entered
   clicked |-> Null,        \* the url of the web result whose Link was clicked
   state |-> Null,          \* location.state?.destinationUrl
   config |-> NoConfig, email |-> FALSE, submitted |-> FALSE,
   loading |-> FALSE,       \* a handleSubmit is between setLoading(true) and finally
   toast |-> "none", timer |-> Null, href |-> Null]

HasPreLanding(d, r) == \E c \in d.pre_landing_config : c.related_search_id = r

(* WebResults.fetchWebResults, first build: the rows are re-sorted with    *)
(* the sponsored ones on top.                                              *)
fetchWebResults ==
  /\ reader.page = "web_results" /\ reader.wrBuild = 1 /\ ~reader.fetched
  /\ \E resultsData \in SelectWebResultsOrdered(db, reader.searchId) :
       reader' = [reader EXCEPT !.fetched = TRUE, !.webResults = sort(resultsData)]
  /\ UNCHANGED <<db, outsideFunnel>>

(* WebResults.fetchWebResults, second build: the rows are shown as the     *)
(* store returned them.                                                    *)
fetchWebResults_v2 ==
  /\ reader.page = "web_results" /\ reader.wrBuild = 2 /\ ~reader.fetched
  /\ \E resultsData \in SelectWebResultsOrdered(db, reader.searchId) :
       reader' = [reader EXCEPT !.fetched = TRUE, !.webResults = resultsData]
  /\ UNCHANGED <<db, outsideFunnel>>

(* A click on the Link of the i-th rendered result: handleVisitClick       *)
(* starts trackVisitNowClick without awaiting it, and the router goes to   *)
(* /pre-landing/:searchId.  The Link passes no navigation state.           *)
handleVisitClick(i) ==
  /\ reader.page = "web_results"
  /\ i \in 1..Len(reader.webResults)
  /\ \E fresh \in SessionIds :
       LET session == getSessionId(reader.sessionStorage, fresh)
       IN reader' = [reader EXCEPT
            !.page = "pre_landing", !.via = "visit",
            !.clicked = reader.webResults[i].url,
            !.state = Null, !.config = NoConfig,
            !.sessionStorage = session.storage,
            !.pending = Append(@, TrackEventCall("visit_now_click", reader.searchId,
                                                 session.sessionId))]
  /\ UNCHANGED <<db, outsideFunnel>>

(* The mount effect of WebResults calling trackPageView, not awaited. *)
trackPageView ==
  /\ reader.page = "web_results" /\ ~reader.viewed
  /\ \E fresh \in SessionIds :
       LET session == getSessionId(reader.sessionStorage, fresh)
       IN reader' = [reader EXCEPT
            !.viewed = TRUE,
            !.sessionStorage = session.storage,
            !.pending = Append(@, TrackEventCall("page_view", Null, session.sessionId))]
  /\ UNCHANGED <<db, outsideFunnel>>

trackEvent_dropsOnLookupFailure(ipOk, countryOk, ok) ==
  /\ reader.pending # <<>>
  /\ LET call == Head(reader.pending)
         ipAddress == getIpAddress(ipOk)
         country == getCountry(ipAddress, countryOk)
         reached == ipOk /\ countryOk
     IN /\ db' = InsertAnalyticsEvent(db, Null, call.related_search_id, call.session_id,
                                       ipAddress, country, ok /\ reached)
        /\ reader' = [reader EXCEPT
             !.pending = Tail(@),
             !.lastEvent = [event_type |-> call.event_type, ipOk |-> ipOk,
                            countryOk |-> countryOk, attempted |-> reached, ok |-> ok,
                            id |-> IF ok /\ reached THEN NextId(db.analytics_events)
                                   ELSE Null]]
  /\ UNCHANGED outsideFunnel

(* The rest of a trackEvent call, from its lookups to its insert: a lookup *)
(* that fails gives 'unknown', a failed insert is only logged.             *)
trackEvent(ipOk, countryOk, ok) ==
  /\ reader.pending # <<>>
  /\ LET call == Head(reader.pending)
         ipAddress == getIpAddress(ipOk)
         country == getCountry(ipAddress, countryOk)
     IN /\ db' = InsertAnalyticsEvent(db, Null, call.related_search_id, call.session_id,
                                       ipAddress, country, ok)
        /\ reader' = [reader EXCEPT
             !.pending = Tail(@),
             !.lastEvent = [event_type |-> call.event_type, ipOk |-> ipOk,
                            countryOk |-> countryOk, attempted |-> TRUE, ok |-> ok,
                            id |-> IF ok THEN NextId(db.analytics_events) ELSE Null]]
  /\ UNCHANGED outsideFunnel

(* The router mounting PreLanding for /pre-landing/:searchId with the      *)
(* navigation state its caller handed over.                                *)
PreLanding(state) ==
  /\ reader.page = "web_results" /\ reader.via = "none"
  /\ reader' = [reader EXCEPT !.page = "pre_landing", !.via = "route",
                              !.state = state, !.config = NoConfig]
  /\ UNCHANGED <<db, outsideFunnel>>

(* PreLanding.fetchConfig: .single() yields data only when the row exists. *)
fetchConfig ==
  /\ reader.page = "pre_landing" /\ reader.config = NoConfig
  /\ \E data \in db.pre_landing_config :
       /\ data.related_search_id = reader.searchId
       /\ reader' = [reader EXCEPT !.config = data]
  /\ UNCHANGED <<db, outsideFunnel>>

(* The reader typing into the email field, which is rendered once the      *)
(* config has arrived.                                                     *)
setEmail ==
  /\ reader.page = "pre_landing" /\ reader.config # NoConfig /\ ~reader.email
  /\ reader' = [reader EXCEPT !.email = TRUE]
  /\ UNCHANGED <<db, outsideFunnel>>

(* The first part of handleSubmit, the same in both builds: without an     *)
(* email it returns, otherwise setLoading(true) disables the button until  *)
(* the finally block.                                                      *)
handleSubmit_setLoading ==
  /\ reader.page = "pre_landing"
  /\ reader.config # NoConfig /\ reader.email /\ ~reader.loading
  /\ Cardinality(db.email_submissions) < MaxTracked
  /\ reader' = [reader EXCEPT !.loading = TRUE]
  /\ UNCHANGED <<db, outsideFunnel>>

(* trackEmailSubmission rethrowing a failed insert into the catch block of *)
(* handleSubmit, and setLoading(false) inside the try block instead of in  *)
(* finally.                                                                *)
Submit_leavesLoading(build, ipOk, ok, redirectUrl) ==
  /\ reader.page = "pre_landing" /\ reader.plBuild = build
  /\ reader.loading
  /\ \E fresh \in SessionIds :
       LET session == getSessionId(reader.sessionStorage, fresh)
       IN /\ db' = InsertEmailSubmission(db, reader.searchId, session.sessionId,
                                         getIpAddress(ipOk), ok)
          /\ reader' = IF ok
               THEN [reader EXCEPT
                       !.sessionStorage = session.storage,
                       !.email = FALSE, !.submitted = TRUE, !.loading = FALSE,
                       !.toast = "success",
                       !.timer = IF redirectUrl # Null THEN redirectUrl ELSE @]
               ELSE [reader EXCEPT
                       !.sessionStorage = session.storage,
                       !.submitted = TRUE, !.toast = "error"]
  /\ UNCHANGED outsideFunnel

Submit_surfacesTrackingError(build, ipOk, ok, redirectUrl) ==
  /\ reader.page = "pre_landing" /\ reader.plBuild = build
  /\ reader.loading
  /\ \E fresh \in SessionIds :
       LET session == getSessionId(reader.sessionStorage, fresh)
       IN /\ db' = InsertEmailSubmission(db, reader.searchId, session.sessionId,
                                         getIpAddress(ipOk), ok)
          /\ reader' = IF ok
               THEN [reader EXCEPT
                       !.sessionStorage = session.storage,
                       !.email = FALSE, !.submitted = TRUE, !.loading = FALSE,
                       !.toast = "success",
                       !.timer = IF redirectUrl # Null THEN redirectUrl ELSE @]
               ELSE [reader EXCEPT
                       !.sessionStorage = session.storage,
                       !.email = FALSE, !.submitted = TRUE, !.loading = FALSE,
                       !.toast = "error"]
  /\ UNCHANGED outsideFunnel

(* What handleSubmit does after setLoading(true), around its choice of     *)
(* redirect: it awaits trackEmailSubmission (which swallows a failed       *)
(* insert), toasts, clears the field, arms the 1500 ms timer when there is *)
(* a URL to go to, and resets loading in its finally block.                *)
Submit(build, ipOk, ok, redirectUrl) ==
  /\ reader.page = "pre_landing" /\ reader.plBuild = build
  /\ reader.loading
  /\ \E fresh \in SessionIds :
       LET session == getSessionId(reader.sessionStorage, fresh)
       IN /\ db' = InsertEmailSubmission(db, reader.searchId, session.sessionId,
                                         getIpAddress(ipOk), ok)
          /\ reader' = [reader EXCEPT
               !.sessionStorage = session.storage,
               !.email = FALSE, !.submitted = TRUE, !.loading = FALSE,
               !.toast = "success",
               !.timer = IF redirectUrl # Null THEN redirectUrl ELSE @]
  /\ UNCHANGED outsideFunnel

(* PreLanding.handleSubmit, first build: if (config?.destination_url) *)
handleSubmit_v1_redirect == reader.config.destination_url

handleSubmit_v1(ipOk, ok) == Submit(1, ipOk, ok, handleSubmit_v1_redirect)

(* PreLanding.handleSubmit, second build:                                  *)
(* redirectUrl = destinationUrl || config?.destination_url                 *)
handleSubmit_redirect ==
  IF reader.state # Null THEN reader.state ELSE reader.config.destination_url

handleSubmit(ipOk, ok) == Submit(2, ipOk, ok, handleSubmit_redirect)

(* The timer armed by handleSubmit firing: window.location.href = url. *)
redirect ==
  /\ reader.page = "pre_landing" /\ reader.timer # Null
  /\ reader' = [reader EXCEPT !.page = "left", !.href = reader.timer, !.timer = Null]
  /\ UNCHANGED <<db, outsideFunnel>>

(***************************************************************************)
(* Authoring.  The operator composes a blog either in the BlogsManager     *)
(* create form or in the BlogCreationWizard; both offer the phrases the     *)
(* generation service returned for selection, by index.                    *)
(***************************************************************************)
NumCandidates == 5
MaxCreated == 1

(* selectedSearches.length === 4 / selectedSearches.length < 4 *)
RequiredSearches == 4

(* What a call of the generation service for blog content can come to. *)
GenerationOutcomes == {"content and searches", "content", "failed"}

(* The gateway is a language model: two requests for the same title need   *)
(* not be answered with the same phrases.                                  *)
RegenerationOutcomes == {"content and other searches"}

(* The phrases of one generation: phrase k sits at index k - 1. *)
GeneratedPhrases == [k \in 1..NumCandidates |-> k]

(* The phrases of a generation that answered differently. *)
OtherPhrases == [k \in 1..NumCandidates |-> NumCandidates + k]

(* data.relatedSearches of an answer, empty when it carries none. *)
data_relatedSearches(outcome) ==
  CASE outcome = "content and searches" -> GeneratedPhrases
    [] outcome = "content and other searches" -> OtherPhrases
    [] OTHER -> <<>>

includes(q, x) == \E k \in 1..Len(q) : q[k] = x

RECURSIVE filterOut(_, _)
filterOut(q, x) ==
  IF q = <<>> THEN <<>>
  ELSE IF Head(q) = x THEN filterOut(Tail(q), x)
  ELSE <<Head(q)>> \o filterOut(Tail(q), x)

(* A selected index put back where it stands in the candidate list. *)
RECURSIVE insertByIndex(_, _)
insertByIndex(q, x) ==
  IF q = <<>> THEN <<x>>
  ELSE IF x < Head(q) THEN <<x>> \o q
  ELSE <<Head(q)>> \o insertByIndex(Tail(q), x)

ToggleSelection_uncapped(prev, index, limit) ==
  IF includes(prev, index) THEN filterOut(prev, index)
  ELSE Append(prev, index)

ToggleSelection_restoresPosition(prev, index, limit) ==
  IF includes(prev, index) THEN filterOut(prev, index)
  ELSE IF Len(prev) < limit THEN insertByIndex(prev, index)
  ELSE prev

(* The click handler of a selectable item: a selected index is filtered    *)
(* out, an unselected one is appended while fewer than limit are selected. *)
ToggleSelection(prev, index, limit) ==
  IF includes(prev, index) THEN filterOut(prev, index)
  ELSE IF Len(prev) < limit THEN Append(prev, index)
  ELSE prev

NextBlogId(d) ==
  IF d.blogs = {} THEN 1 ELSE 1 + CHOOSE m \in d.blogs : \A k \in d.blogs : k <= m

(* The store before anything was authored. *)
EmptyStore ==
  [blogs |-> {}, related_searches |-> {}, web_results |-> {},
   pre_landing_config |-> {}, analytics_events |-> {}, email_submissions |-> {}]

(* created and submitted keep what the last handleSubmit persisted and     *)
(* the selection it ran with; resetForm does not clear them.               *)
ClosedForm ==
  [isCreating |-> FALSE, generatedSearches |-> <<>>, selectedSearches |-> <<>>,
   toast |-> "none", created |-> Null, submitted |-> <<>>]

WizardClosed == wizard.currentStep = "closed"

(* The "Create New Blog" button. *)
setIsCreating ==
  /\ ~form.isCreating /\ WizardClosed
  /\ Cardinality(db.blogs) < MaxCreated
  /\ form' = [form EXCEPT !.isCreating = TRUE]
  /\ UNCHANGED <<db, admin, reader, wizard, service, manager, download>>

(* BlogsManager.generateContentOnly: the phrases are replaced only when    *)
(* the service answered with content and a non-empty phrase list.          *)
generateContentOnly(outcome) ==
  /\ form.isCreating
  /\ form' = [form EXCEPT
       !.generatedSearches =
          IF Len(data_relatedSearches(outcome)) > 0 THEN data_relatedSearches(outcome) ELSE @,
       !.toast = IF outcome = "failed" THEN "error" ELSE "success"]
  /\ UNCHANGED <<db, admin, reader, wizard, service, manager, download>>

(* The onClick of a phrase in the form. *)
BM_selectSearch(index) ==
  /\ form.isCreating
  /\ index \in 0..(Len(form.generatedSearches) - 1)
  /\ form' = [form EXCEPT
       !.selectedSearches = ToggleSelection(@, index, RequiredSearches)]
  /\ UNCHANGED <<db, admin, reader, wizard, service, manager, download>>

searchesToInsert_wrOfPhrase(d, blogId, selected, generated) ==
  {[id |-> NextId(d.related_searches) + wrIndex, blog_id |-> blogId,
    search_text |-> generated[selected[wrIndex + 1] + 1],
    order_index |-> wrIndex, wr |-> selected[wrIndex + 1] + 1] :
     wrIndex \in 0..(Len(selected) - 1)}

(* The rows selectedSearches.map(...) builds for the batch insert. *)
searchesToInsert(d, blogId, selected, generated) ==
  {[id |-> NextId(d.related_searches) + wrIndex, blog_id |-> blogId,
    search_text |-> generated[selected[wrIndex + 1] + 1],
    order_index |-> wrIndex, wr |-> wrIndex + 1] : wrIndex \in 0..(Len(selected) - 1)}

(* BlogsManager.handleSubmit, creating: the blog is inserted, then the     *)
(* four related searches in one batch when exactly four are selected;      *)
(* resetForm runs whatever the outcome.                                    *)
BM_handleSubmit(blogOk, searchesOk) ==
  /\ form.isCreating
  /\ LET newBlog == NextBlogId(db)
         withSearches == Len(form.selectedSearches) = RequiredSearches
         d1 == [db EXCEPT !.blogs = @ \cup {newBlog}]
         d2 == [d1 EXCEPT !.related_searches =
                  @ \cup searchesToInsert(d1, newBlog, form.selectedSearches,
                                          form.generatedSearches)]
     IN /\ db' = IF ~blogOk THEN db
                 ELSE IF withSearches /\ searchesOk THEN d2 ELSE d1
        /\ form' = [ClosedForm EXCEPT
             !.toast = IF ~blogOk THEN "error"
                       ELSE IF withSearches /\ ~searchesOk THEN "error" ELSE "success",
             !.created = IF blogOk THEN newBlog ELSE form.created,
             !.submitted = IF blogOk THEN form.selectedSearches ELSE form.submitted]
  /\ UNCHANGED <<admin, reader, wizard, service, manager, download>>

(* The form's Cancel button. *)
resetForm ==
  /\ form.isCreating
  /\ form' = [ClosedForm EXCEPT !.toast = form.toast, !.created = form.created,
                                !.submitted = form.submitted]
  /\ UNCHANGED <<db, admin, reader, wizard, service, manager, download>>

(***************************************************************************)
(* The BlogCreationWizard.  Its maps are keyed by the index of a phrase in *)
(* generatedSearches; an absent key reads as the empty list.               *)
(***************************************************************************)
NumWebCandidates == 5
MaxBack == 2
MaxDeselects == 1
MaxPreLandings == 1
MaxFailures == 1

(* selected.length !== 4 / current.length < 4 *)
RequiredWebResults == 4

CandidateIndices == 0..(NumCandidates - 1)

(* The url of web result resultIdx generated for the phrase searchText. *)
GeneratedUrl(searchText, resultIdx) == searchText * 10 + resultIdx

GeneratedWebResults(searchText) ==
  [k \in 1..NumWebCandidates |-> GeneratedUrl(searchText, k - 1)]

(***************************************************************************)
(* The generate-blog function.  Each request makes the function call the   *)
(* model gateway; the outcome of a request is what that call does.  An     *)
(* answer with ok FALSE stands for the status 500 of the function's catch  *)
(* block and for a request that never reached the function.                *)
(***************************************************************************)
ServiceOutcomes == {"ok", "network failure", "non-success status", "malformed payload"}

(* generateWebResults: a non-success status of the gateway throws; text    *)
(* that does not parse is answered as an empty list.                       *)
serve_generateWebResults(searchText, outcome) ==
  CASE outcome = "ok" -> [ok |-> TRUE, webResults |-> GeneratedWebResults(searchText)]
    [] outcome = "malformed payload" -> [ok |-> TRUE, webResults |-> <<>>]
    [] OTHER -> [ok |-> FALSE, webResults |-> <<>>]

(* generatePreLanding: the default content stands when the gateway         *)
(* answers with a non-success status or with text that does not parse.     *)
serve_generatePreLanding(outcome) ==
  CASE outcome = "ok" -> [ok |-> TRUE, preLanding |-> "generated"]
    [] outcome = "network failure" -> [ok |-> FALSE, preLanding |-> "none"]
    [] OTHER -> [ok |-> TRUE, preLanding |-> "default"]

(* imageOnly: the imageUrl stays empty when the gateway answers with a     *)
(* non-success status or without an image.                                 *)
serve_imageOnly(outcome) ==
  CASE outcome = "ok" -> [ok |-> TRUE, imageUrl |-> TRUE]
    [] outcome = "network failure" -> [ok |-> FALSE, imageUrl |-> FALSE]
    [] OTHER -> [ok |-> TRUE, imageUrl |-> FALSE]

(* The component when it is not mounted.  toast is the notification the    *)
(* last handler raised, "none" when it raised none, and failedCall the     *)
(* generation that handler asked for when the service did not produce it;  *)
(* saved, failed and log keep what                                         *)
(* the last handleSaveAll ran with, which inserts failed and the rows it   *)
(* inserted, in the order of the inserts.                                  *)
(* What a handler that is awaiting a request still holds from the render   *)
(* it was clicked in: the kind of call, the arguments of a generation and  *)
(* the selections a save works with.                                       *)
EmptyClosure ==
  [generatedSearches |-> <<>>, selectedSearches |-> <<>>,
   webResultsMap |-> [i \in CandidateIndices |-> <<>>],
   selectedWebResultsMap |-> [i \in CandidateIndices |-> <<>>],
   preLandingMap |-> {}]

NoCall == [kind |-> "none", searchIndex |-> 0, searchText |-> 0, closure |-> EmptyClosure]

(* calls and imageCalls are history: how many handlers that set            *)
(* isGenerating, and how many that set isGeneratingImage, are awaiting.    *)
UnmountedWizard ==
  [currentStep |-> "closed", isGenerating |-> FALSE, isGeneratingImage |-> FALSE,
   inFlight |-> NoCall, calls |-> 0, imageCalls |-> 0,
   blogData |-> [title |-> FALSE, details |-> FALSE, content |-> FALSE,
                 featured_image |-> FALSE],
   generatedSearches |-> <<>>, selectedSearches |-> <<>>,
   webResultsMap |-> [i \in CandidateIndices |-> <<>>],
   selectedWebResultsMap |-> [i \in CandidateIndices |-> <<>>],
   currentSearchIndex |-> 0,
   preLandingMap |-> {},
   toast |-> "none", failedCall |-> "none",
   backs |-> 0, deselects |-> 0, failures |-> 0,
   saved |-> <<>>, failed |-> {}, log |-> <<>>]

At(step) == wizard.currentStep = step

(* A handler that calls neither the service nor the store raises no        *)
(* notification.                                                           *)
Quiet(w) == [w EXCEPT !.toast = "none", !.failedCall = "none"]

Stay == UNCHANGED <<db, admin, reader, form, service, manager, download>>

(* The wizard being mounted by the page that hosts it. *)
BlogCreationWizard ==
  /\ WizardClosed /\ ~form.isCreating
  /\ Cardinality(db.blogs) < MaxCreated
  /\ wizard' = [UnmountedWizard EXCEPT !.currentStep = "blog"]
  /\ Stay

(* The inputs of the blog step: the title, the category and author, and    *)
(* the content typed by hand.                                              *)
setBlogData(field) ==
  /\ At("blog")
  /\ ~wizard.blogData[field]
  /\ wizard' = [Quiet(wizard) EXCEPT !.blogData[field] = TRUE]
  /\ Stay

generateBlogContent_clearsOnFailure(outcome) ==
  /\ \/ At("blog")
     \/ At("related-searches") /\ wizard.generatedSearches = <<>>
  /\ LET answered == wizard.blogData.title /\ outcome # "failed"
     IN wizard' = [wizard EXCEPT
          !.blogData.content = IF answered THEN TRUE ELSE @,
          !.generatedSearches =
             IF answered /\ Len(data_relatedSearches(outcome)) > 0 THEN data_relatedSearches(outcome)
             ELSE IF wizard.blogData.title /\ outcome = "failed" THEN <<>> ELSE @,
          !.toast = IF answered THEN "success" ELSE "error",
          !.failedCall = IF wizard.blogData.title /\ outcome = "failed"
                         THEN "content" ELSE "none"]
  /\ Stay

(* generateBlogContent, offered on the blog step and, while no phrases     *)
(* exist, on the related-searches step; without a title it only toasts.    *)
generateBlogContent(outcome) ==
  /\ \/ At("blog")
     \/ At("related-searches") /\ wizard.generatedSearches = <<>>
  /\ LET answered == wizard.blogData.title /\ outcome # "failed"
     IN wizard' = [wizard EXCEPT
          !.blogData.content = IF answered THEN TRUE ELSE @,
          !.generatedSearches =
             IF answered /\ Len(data_relatedSearches(outcome)) > 0
             THEN data_relatedSearches(outcome) ELSE @,
          !.toast = IF answered THEN "success" ELSE "error",
          !.failedCall = IF wizard.blogData.title /\ outcome = "failed"
                         THEN "content" ELSE "none"]
  /\ Stay

(* generateBlogContent run again once web results were generated for a    *)
(* phrase, and answered with other phrases than the first time.            *)
regenerateBlogContent ==
  /\ \E i \in CandidateIndices : wizard.webResultsMap[i] # <<>>
  /\ \E outcome \in RegenerationOutcomes : generateBlogContent(outcome)

(* generateImageOnly: the featured image is set when the answer carries    *)
(* an imageUrl; an answer without one raises no notification.              *)
generateImageOnly(outcome) ==
  /\ At("blog")
  /\ wizard.blogData.title /\ ~wizard.blogData.featured_image
  /\ LET response == serve_imageOnly(outcome)
     IN wizard' = [wizard EXCEPT
          !.blogData.featured_image = IF response.ok /\ response.imageUrl THEN TRUE ELSE @,
          !.toast = IF ~response.ok THEN "error"
                    ELSE IF response.imageUrl THEN "success" ELSE "none",
          !.failedCall = IF outcome = "ok" THEN "none" ELSE "image"]
  /\ Stay

canProceedFromBlog ==
  wizard.blogData.title /\ wizard.blogData.content /\ wizard.blogData.details

canProceedFromSearches_threeOrMore == Len(wizard.selectedSearches) >= RequiredSearches - 1

canProceedFromSearches == Len(wizard.selectedSearches) = RequiredSearches

canProceedFromWebResults_ignoresLast ==
  \A i \in 1..(Len(wizard.selectedSearches) - 1) :
    Len(wizard.selectedWebResultsMap[wizard.selectedSearches[i]]) = RequiredWebResults

canProceedFromWebResults ==
  \A i \in 1..Len(wizard.selectedSearches) :
    Len(wizard.selectedWebResultsMap[wizard.selectedSearches[i]]) = RequiredWebResults

(* The operator works down a list of n selectable items: a click goes to   *)
(* the first item not yet selected, to any unselected item once the        *)
(* selection is full, or, at most MaxDeselects times, to a selected one.   *)
Clickable(n, current, limit) ==
  LET shown == 0..(n - 1)
      unselected == {r \in shown : ~includes(current, r)}
  IN {r \in unselected : Len(current) >= limit \/ \A u \in unselected : r <= u}
     \cup (IF wizard.deselects < MaxDeselects
           THEN {r \in shown : includes(current, r)} ELSE {})

handleSearchSelect(index) ==
  /\ At("related-searches")
  /\ index \in Clickable(Len(wizard.generatedSearches), wizard.selectedSearches,
                         RequiredSearches)
  /\ wizard' = [Quiet(wizard) EXCEPT
       !.selectedSearches = ToggleSelection(@, index, RequiredSearches),
       !.deselects = IF includes(wizard.selectedSearches, index) THEN @ + 1 ELSE @]
  /\ Stay

(* The phrase index the web-results and pre-landing steps are showing. *)
CurrentSearchIdx == wizard.selectedSearches[wizard.currentSearchIndex + 1]

(* Back buttons: the operator goes back at most MaxBack times. *)
Back(w) ==
  /\ wizard.backs < MaxBack
  /\ wizard' = [w EXCEPT !.backs = @ + 1]
  /\ Stay

Next_RelatedSearches ==
  /\ At("blog") /\ canProceedFromBlog
  /\ wizard' = [Quiet(wizard) EXCEPT !.currentStep = "related-searches"]
  /\ Stay

Back_Blog ==
  /\ At("related-searches")
  /\ Back([Quiet(wizard) EXCEPT !.currentStep = "blog"])

Next_WebResults ==
  /\ At("related-searches") /\ canProceedFromSearches
  /\ wizard' = [Quiet(wizard) EXCEPT !.currentStep = "web-results", !.currentSearchIndex = 0]
  /\ Stay

(* generateWebResultsForSearch, offered while the phrase has no results. *)
generateWebResultsForSearch(outcome) ==
  /\ At("web-results")
  /\ wizard.webResultsMap[CurrentSearchIdx] = <<>>
  /\ LET searchText == wizard.generatedSearches[CurrentSearchIdx + 1]
         response == serve_generateWebResults(searchText, outcome)
         received == response.ok /\ Len(response.webResults) > 0
     IN wizard' = [wizard EXCEPT
          !.webResultsMap[CurrentSearchIdx] = IF received THEN response.webResults ELSE @,
          !.toast = IF ~response.ok THEN "error"
                    ELSE IF received THEN "success" ELSE "none",
          !.failedCall = IF outcome = "ok" THEN "none" ELSE "web results"]
  /\ Stay

handleWebResultSelect(resultIdx) ==
  /\ At("web-results")
  /\ resultIdx \in Clickable(Len(wizard.webResultsMap[CurrentSearchIdx]),
                             wizard.selectedWebResultsMap[CurrentSearchIdx],
                             RequiredWebResults)
  /\ LET current == wizard.selectedWebResultsMap[CurrentSearchIdx]
     IN wizard' = [Quiet(wizard) EXCEPT
          !.selectedWebResultsMap[CurrentSearchIdx] =
             ToggleSelection(current, resultIdx, RequiredWebResults),
          !.deselects = IF includes(current, resultIdx) THEN @ + 1 ELSE @]
  /\ Stay

Back_WebResults ==
  /\ At("web-results")
  /\ Back(IF wizard.currentSearchIndex > 0
          THEN [Quiet(wizard) EXCEPT !.currentSearchIndex = @ - 1]
          ELSE [Quiet(wizard) EXCEPT !.currentStep = "related-searches"])

NextSearch_WebResults ==
  /\ At("web-results")
  /\ wizard.currentSearchIndex < Len(wizard.selectedSearches) - 1
  /\ Len(wizard.selectedWebResultsMap[CurrentSearchIdx]) = RequiredWebResults
  /\ wizard' = [Quiet(wizard) EXCEPT !.currentSearchIndex = @ + 1]
  /\ Stay

Next_PreLanding ==
  /\ At("web-results")
  /\ ~(wizard.currentSearchIndex < Len(wizard.selectedSearches) - 1)
  /\ canProceedFromWebResults
  /\ wizard' = [Quiet(wizard) EXCEPT !.currentStep = "pre-landing", !.currentSearchIndex = 0]
  /\ Stay

(* generatePreLandingForWebResult, offered while the phrase has no         *)
(* pre-landing; the operator asks for at most MaxPreLandings of them.      *)
generatePreLandingForWebResult(outcome) ==
  /\ At("pre-landing")
  /\ CurrentSearchIdx \notin wizard.preLandingMap
  /\ Cardinality(wizard.preLandingMap) < MaxPreLandings
  /\ LET response == serve_generatePreLanding(outcome)
         received == response.ok /\ response.preLanding # "none"
     IN wizard' = [wizard EXCEPT
          !.preLandingMap = IF received THEN @ \cup {CurrentSearchIdx} ELSE @,
          !.toast = IF ~response.ok THEN "error"
                    ELSE IF received THEN "success" ELSE "none",
          !.failedCall = IF outcome = "ok" THEN "none" ELSE "pre-landing"]
  /\ Stay

Back_PreLanding_pastEnd ==
  /\ At("pre-landing")
  /\ Back(IF wizard.currentSearchIndex > 0
          THEN [Quiet(wizard) EXCEPT !.currentSearchIndex = @ - 1]
          ELSE [Quiet(wizard) EXCEPT !.currentStep = "web-results",
                              !.currentSearchIndex = Len(wizard.selectedSearches)])

Back_PreLanding ==
  /\ At("pre-landing")
  /\ Back(IF wizard.currentSearchIndex > 0
          THEN [Quiet(wizard) EXCEPT !.currentSearchIndex = @ - 1]
          ELSE [Quiet(wizard) EXCEPT !.currentStep = "web-results",
                              !.currentSearchIndex = Len(wizard.selectedSearches) - 1])

NextSearch_PreLanding ==
  /\ At("pre-landing")
  /\ wizard.currentSearchIndex < Len(wizard.selectedSearches) - 1
  /\ wizard' = [Quiet(wizard) EXCEPT !.currentSearchIndex = @ + 1]
  /\ Stay

Next_Review ==
  /\ At("pre-landing")
  /\ ~(wizard.currentSearchIndex < Len(wizard.selectedSearches) - 1)
  /\ wizard' = [Quiet(wizard) EXCEPT !.currentStep = "review"]
  /\ Stay

Back_Review ==
  /\ At("review")
  /\ Back([Quiet(wizard) EXCEPT !.currentStep = "pre-landing",
                         !.currentSearchIndex = Len(wizard.selectedSearches) - 1])

(***************************************************************************)
(* handleSaveAll.  The handler reads the component state it was rendered   *)
(* with, so what it inserts is a function of that state and of which       *)
(* inserts the store fails.  An insert is named by its table, the wrIndex  *)
(* of its phrase and, for a web result, its resultOrder.                   *)
(***************************************************************************)
InsertPoint(table, wrIndex, resultOrder) == <<table, wrIndex, resultOrder>>

(* The inserts a save of wizard state w attempts when none fails. *)
InsertPoints(w) ==
  {InsertPoint("blogs", 0, 0)}
  \cup {InsertPoint("related_searches", k, 0) : k \in 0..(Len(w.selectedSearches) - 1)}
  \cup UNION {{InsertPoint("web_results", k, j) :
                 j \in 0..(Len(w.selectedWebResultsMap[w.selectedSearches[k + 1]]) - 1)} :
              k \in 0..(Len(w.selectedSearches) - 1)}
  \cup {InsertPoint("pre_landing_config", k, 0) :
          k \in {i \in 0..(Len(w.selectedSearches) - 1) :
                   w.selectedSearches[i + 1] \in w.preLandingMap}}

(* The store fails none or one of the inserts of a save. *)
FailureSets(w) == {{}} \cup {{p} : p \in InsertPoints(w)}

(* One successful insert: the row joins its table and the log. *)
Inserted(acc, table, row) ==
  [db |-> [acc.db EXCEPT ![table] = @ \cup {row}],
   log |-> Append(acc.log, [table |-> table, row |-> row])]

(* 3. Create web results for this search: the loop over resultOrder.  An   *)
(* iteration works on the value of what the inserts before it left: next   *)
(* is applied to the one element of {sofar}.                               *)
RECURSIVE SaveWebResults(_, _, _, _, _, _)
SaveWebResults(sofar, w, failed, wrIndex, newSearch, resultOrder) ==
  LET searchIdx == w.selectedSearches[wrIndex + 1]
      selectedResults == w.selectedWebResultsMap[searchIdx]
      webResults == w.webResultsMap[searchIdx]
      next(acc) ==
        IF ~(resultOrder < Len(selectedResults)) THEN acc
        ELSE LET resultIdx == selectedResults[resultOrder + 1]
                 row == [id |-> NextId(acc.db.web_results),
                         related_search_id |-> newSearch.id,
                         url |-> webResults[resultIdx + 1],
                         order_index |-> resultOrder, is_sponsored |-> FALSE]
             IN SaveWebResults(
                  IF InsertPoint("web_results", wrIndex, resultOrder) \in failed
                  THEN acc ELSE Inserted(acc, "web_results", row),
                  w, failed, wrIndex, newSearch, resultOrder + 1)
  IN CHOOSE out \in {next(acc) : acc \in {sofar}} : TRUE

(* 4. Create pre-landing config if exists. *)
SavePreLanding(acc, w, failed, wrIndex, newSearch) ==
  IF w.selectedSearches[wrIndex + 1] \notin w.preLandingMap
       \/ InsertPoint("pre_landing_config", wrIndex, 0) \in failed
  THEN acc
  ELSE Inserted(acc, "pre_landing_config",
                PreLandingRow(NextId(acc.db.pre_landing_config), newSearch.id, Null))

RECURSIVE SaveSearches_preLandingFirst(_, _, _, _, _)
SaveSearches_preLandingFirst(sofar, w, failed, newBlog, wrIndex) ==
  LET next(acc) ==
        IF ~(wrIndex < Len(w.selectedSearches)) THEN acc
        ELSE LET newSearch == [id |-> NextId(acc.db.related_searches), blog_id |-> newBlog,
                               search_text |-> w.generatedSearches[w.selectedSearches[wrIndex + 1] + 1],
                               order_index |-> wrIndex, wr |-> wrIndex + 1]
             IN IF InsertPoint("related_searches", wrIndex, 0) \in failed
                THEN SaveSearches_preLandingFirst(acc, w, failed, newBlog, wrIndex + 1)
                ELSE SaveSearches_preLandingFirst(
                       SaveWebResults(
                         SavePreLanding(Inserted(acc, "related_searches", newSearch),
                                        w, failed, wrIndex, newSearch),
                         w, failed, wrIndex, newSearch, 0),
                       w, failed, newBlog, wrIndex + 1)
  IN CHOOSE out \in {next(acc) : acc \in {sofar}} : TRUE

(* 2. Create related searches with WR assignments: the loop over wrIndex;  *)
(* a failed insert of the search skips its web results and pre-landing.    *)
RECURSIVE SaveSearches(_, _, _, _, _)
SaveSearches(sofar, w, failed, newBlog, wrIndex) ==
  LET next(acc) ==
        IF ~(wrIndex < Len(w.selectedSearches)) THEN acc
        ELSE LET newSearch == [id |-> NextId(acc.db.related_searches), blog_id |-> newBlog,
                               search_text |-> w.generatedSearches[w.selectedSearches[wrIndex + 1] + 1],
                               order_index |-> wrIndex, wr |-> wrIndex + 1]
             IN IF InsertPoint("related_searches", wrIndex, 0) \in failed
                THEN SaveSearches(acc, w, failed, newBlog, wrIndex + 1)
                ELSE SaveSearches(
                       SavePreLanding(
                         SaveWebResults(Inserted(acc, "related_searches", newSearch),
                                        w, failed, wrIndex, newSearch, 0),
                         w, failed, wrIndex, newSearch),
                       w, failed, newBlog, wrIndex + 1)
  IN CHOOSE out \in {next(acc) : acc \in {sofar}} : TRUE

(* The Save All button.  A failed insert of the blog throws into the catch *)
(* block; otherwise the loops run, the success toast is shown and          *)
(* onComplete lets the host page unmount the wizard.                       *)
handleSaveAll(failed) ==
  /\ At("review")
  /\ failed \in FailureSets(wizard)
  /\ wizard.failures + Cardinality(failed) <= MaxFailures
  /\ LET newBlog == NextBlogId(db)
         blogFailed == InsertPoint("blogs", 0, 0) \in failed
         start == [db |-> [db EXCEPT !.blogs = @ \cup {newBlog}],
                   log |-> <<[table |-> "blogs", row |-> [id |-> newBlog]]>>]
         end == SaveSearches(start, wizard, failed, newBlog, 0)
     IN /\ db' = IF blogFailed THEN db ELSE end.db
        /\ wizard' = [wizard EXCEPT
             !.currentStep = IF blogFailed THEN @ ELSE "closed",
             !.toast = IF blogFailed THEN "error" ELSE "saved",
             !.failedCall = "none",
             !.failures = @ + Cardinality(failed),
             !.saved = IF blogFailed THEN @ ELSE wizard.selectedSearches,
             !.failed = failed,
             !.log = IF blogFailed THEN @ ELSE end.log]
  /\ UNCHANGED <<admin, reader, form, service, manager, download>>

(***************************************************************************)
(* The handlers of the wizard that await a request, in two steps each: the *)
(* click up to the first await, and what runs once the request has ended.  *)
(* Between the two the operator can go on clicking; only the buttons with  *)
(* disabled={isGenerating} (or isGeneratingImage) are out of reach.        *)
(***************************************************************************)
Closure(w) ==
  [generatedSearches |-> w.generatedSearches, selectedSearches |-> w.selectedSearches,
   webResultsMap |-> w.webResultsMap, selectedWebResultsMap |-> w.selectedWebResultsMap,
   preLandingMap |-> w.preLandingMap]

(* setIsGenerating(true) of a handler whose call is c. *)
Awaiting(w, c) == [w EXCEPT !.isGenerating = TRUE, !.inFlight = c, !.calls = @ + 1]

(* setIsGenerating(false) of a finally block. *)
Settled(w) == [w EXCEPT !.isGenerating = FALSE, !.inFlight = NoCall, !.calls = @ - 1]

generateBlogContent_begin ==
  /\ \/ At("blog")
     \/ At("related-searches") /\ wizard.generatedSearches = <<>>
  /\ ~wizard.isGenerating
  /\ wizard' = IF ~wizard.blogData.title
               THEN [wizard EXCEPT !.toast = "error", !.failedCall = "none"]
               ELSE Awaiting(wizard, [NoCall EXCEPT !.kind = "content"])
  /\ Stay

generateBlogContent_end(outcome) ==
  /\ wizard.inFlight.kind = "content"
  /\ LET answered == outcome # "failed"
     IN wizard' = [Settled(wizard) EXCEPT
          !.blogData.content = IF answered THEN TRUE ELSE @,
          !.generatedSearches =
             IF answered /\ Len(data_relatedSearches(outcome)) > 0
             THEN data_relatedSearches(outcome) ELSE @,
          !.toast = IF answered THEN "success" ELSE "error",
          !.failedCall = IF outcome = "failed" THEN "content" ELSE "none"]
  /\ Stay

generateImageOnly_begin ==
  /\ At("blog")
  /\ wizard.blogData.title /\ ~wizard.isGeneratingImage
  /\ ~wizard.blogData.featured_image
  /\ wizard' = [wizard EXCEPT !.isGeneratingImage = TRUE, !.imageCalls = @ + 1]
  /\ Stay

generateImageOnly_end(outcome) ==
  /\ wizard.imageCalls > 0
  /\ LET response == serve_imageOnly(outcome)
     IN wizard' = [wizard EXCEPT
          !.isGeneratingImage = FALSE, !.imageCalls = @ - 1,
          !.blogData.featured_image = IF response.ok /\ response.imageUrl THEN TRUE ELSE @,
          !.toast = IF ~response.ok THEN "error"
                    ELSE IF response.imageUrl THEN "success" ELSE @,
          !.failedCall = IF outcome = "ok" THEN @ ELSE "image"]
  /\ Stay

generateWebResultsForSearch_begin ==
  /\ At("web-results")
  /\ wizard.webResultsMap[CurrentSearchIdx] = <<>>
  /\ ~wizard.isGenerating
  /\ wizard' = Awaiting(wizard, [NoCall EXCEPT
                                   !.kind = "web results",
                                   !.searchIndex = CurrentSearchIdx,
                                   !.searchText = wizard.generatedSearches[CurrentSearchIdx + 1]])
  /\ Stay

generateWebResultsForSearch_end(outcome) ==
  /\ wizard.inFlight.kind = "web results"
  /\ LET searchIndex == wizard.inFlight.searchIndex
         response == serve_generateWebResults(wizard.inFlight.searchText, outcome)
         received == response.ok /\ Len(response.webResults) > 0
     IN wizard' = [Settled(wizard) EXCEPT
          !.webResultsMap[searchIndex] = IF received THEN response.webResults ELSE @,
          !.toast = IF ~response.ok THEN "error"
                    ELSE IF received THEN "success" ELSE @,
          !.failedCall = IF outcome = "ok" THEN @ ELSE "web results"]
  /\ Stay

generatePreLandingForWebResult_begin ==
  /\ At("pre-landing")
  /\ CurrentSearchIdx \notin wizard.preLandingMap
  /\ Cardinality(wizard.preLandingMap) < MaxPreLandings
  /\ ~wizard.isGenerating
  /\ wizard' = Awaiting(wizard, [NoCall EXCEPT !.kind = "pre-landing",
                                               !.searchIndex = CurrentSearchIdx])
  /\ Stay

generatePreLandingForWebResult_end(outcome) ==
  /\ wizard.inFlight.kind = "pre-landing"
  /\ LET key == wizard.inFlight.searchIndex
         response == serve_generatePreLanding(outcome)
         received == response.ok /\ response.preLanding # "none"
     IN wizard' = [Settled(wizard) EXCEPT
          !.preLandingMap = IF received THEN @ \cup {key} ELSE @,
          !.toast = IF ~response.ok THEN "error"
                    ELSE IF received THEN "success" ELSE @,
          !.failedCall = IF outcome = "ok" THEN @ ELSE "pre-landing"]
  /\ Stay

handleSaveAll_begin_whileGenerating ==
  /\ At("review")
  /\ wizard' = Awaiting(wizard, [NoCall EXCEPT !.kind = "save",
                                               !.closure = Closure(wizard)])
  /\ Stay

(* The Save All button, disabled={isGenerating}, up to the first insert. *)
handleSaveAll_begin ==
  /\ At("review")
  /\ ~wizard.isGenerating
  /\ wizard' = Awaiting(wizard, [NoCall EXCEPT !.kind = "save",
                                               !.closure = Closure(wizard)])
  /\ Stay

(* The inserts of handleSaveAll, its notification and its finally block;   *)
(* the inserts work with the selections of the render that was clicked.    *)
handleSaveAll_end(failed) ==
  /\ wizard.inFlight.kind = "save"
  /\ failed \in FailureSets(wizard.inFlight.closure)
  /\ wizard.failures + Cardinality(failed) <= MaxFailures
  /\ LET w == wizard.inFlight.closure
         newBlog == NextBlogId(db)
         blogFailed == InsertPoint("blogs", 0, 0) \in failed
         start == [db |-> [db EXCEPT !.blogs = @ \cup {newBlog}],
                   log |-> <<[table |-> "blogs", row |-> [id |-> newBlog]]>>]
         end == SaveSearches(start, w, failed, newBlog, 0)
     IN /\ db' = IF blogFailed THEN db ELSE end.db
        /\ wizard' = [Settled(wizard) EXCEPT
             !.currentStep = IF blogFailed THEN @ ELSE "closed",
             !.toast = IF blogFailed THEN "error" ELSE "saved",
             !.failedCall = "none",
             !.failures = @ + Cardinality(failed),
             !.saved = IF blogFailed THEN @ ELSE w.selectedSearches,
             !.failed = failed,
             !.log = IF blogFailed THEN @ ELSE end.log]
  /\ UNCHANGED <<admin, reader, form, service, manager, download>>

(***************************************************************************)
(* The AI generation panel of WebResultsManager: the operator picks a      *)
(* related search, has web results generated for it, ticks some of them    *)
(* and saves the ticked ones.                                              *)
(***************************************************************************)
MaxSaves == 1

(* picked is history: the ticked results in the order they were ticked;    *)
(* savedPicked and savedIds keep, for the last save, that order and the    *)
(* ids of the rows it inserted.  The panel is followed for MaxSaves saves. *)
ClosedPanel ==
  [selectedSearchForAI |-> Null, generatedResults |-> <<>>, toast |-> "none",
   saves |-> 0, picked |-> <<>>, savedPicked |-> <<>>, savedIds |-> <<>>]

(* The Select of the panel. *)
setSelectedSearchForAI(id) ==
  /\ id \in Ids(db.related_searches)
  /\ manager.selectedSearchForAI # id /\ manager.saves < MaxSaves
  /\ manager' = [manager EXCEPT !.selectedSearchForAI = id]
  /\ UNCHANGED <<db, admin, reader, form, wizard, service, download>>

(* WebResultsManager.generateWebResults *)
WRM_generateWebResults(outcome) ==
  /\ manager.saves < MaxSaves
  /\ manager' =
       IF manager.selectedSearchForAI = Null
       THEN [manager EXCEPT !.toast = "error"]
       ELSE LET data == serve_generateWebResults(manager.selectedSearchForAI, outcome)
            IN IF ~data.ok THEN [manager EXCEPT !.toast = "error"]
               ELSE IF Len(data.webResults) > 0
               THEN [manager EXCEPT
                       !.generatedResults =
                          [k \in 1..Len(data.webResults) |->
                             [url |-> data.webResults[k], selected |-> FALSE]],
                       !.picked = <<>>,
                       !.toast = "success"]
               ELSE manager
  /\ UNCHANGED <<db, admin, reader, form, wizard, service, download>>

(* The results of the panel that are ticked, as indices in list order. *)
RECURSIVE SelectedIndices(_, _)
SelectedIndices(generatedResults, from) ==
  IF from > Len(generatedResults) THEN <<>>
  ELSE (IF generatedResults[from].selected THEN <<from - 1>> ELSE <<>>)
       \o SelectedIndices(generatedResults, from + 1)

(* WebResultsManager.toggleGeneratedResultSelection *)
toggleGeneratedResultSelection(index) ==
  /\ index \in 0..(Len(manager.generatedResults) - 1)
  /\ manager.saves < MaxSaves
  /\ LET r == manager.generatedResults[index + 1]
         selectedCount == Len(SelectedIndices(manager.generatedResults, 1))
     IN manager' =
          IF r.selected
          THEN [manager EXCEPT !.generatedResults[index + 1].selected = FALSE,
                               !.picked = SelectSeq(@, LAMBDA i : i # index)]
          ELSE IF selectedCount < RequiredWebResults
          THEN [manager EXCEPT !.generatedResults[index + 1].selected = TRUE,
                               !.picked = Append(@, index)]
          ELSE manager
  /\ UNCHANGED <<db, admin, reader, form, wizard, service, download>>

(* The rows the save loop has inserted after its first count inserts. *)
RECURSIVE InsertSelectedResults(_, _, _, _)
InsertSelectedResults(d, searchId, selectedResultsToSave, count) ==
  IF count = 0 THEN [db |-> d, ids |-> <<>>]
  ELSE LET before == InsertSelectedResults(d, searchId, selectedResultsToSave, count - 1)
           i == count - 1
           id == NextId(before.db.web_results)
       IN [db |-> [before.db EXCEPT !.web_results =
                     @ \cup {[WebResultRow(id, searchId) EXCEPT
                                !.url = selectedResultsToSave[count].url,
                                !.order_index = i]}],
           ids |-> Append(before.ids, id)]

(* WebResultsManager.saveSelectedResults: the first insert the store       *)
(* refuses ends the loop; failAt is its index, or the length of the list   *)
(* when every insert goes through.                                         *)
saveSelectedResults(failAt) ==
  /\ manager.generatedResults # <<>> /\ manager.saves < MaxSaves
  /\ LET indices == SelectedIndices(manager.generatedResults, 1)
         selectedResultsToSave == [k \in 1..Len(indices) |->
                                     manager.generatedResults[indices[k] + 1]]
     IN IF Len(indices) = 0
        THEN /\ failAt = 0
             /\ manager' = [manager EXCEPT !.toast = "error"]
             /\ UNCHANGED db
        ELSE /\ failAt \in 0..Len(indices)
             /\ manager.selectedSearchForAI \in Ids(db.related_searches)
             /\ LET end == InsertSelectedResults(db, manager.selectedSearchForAI,
                                                 selectedResultsToSave, failAt)
                IN /\ db' = end.db
                   /\ manager' =
                        IF failAt = Len(indices)
                        THEN [manager EXCEPT
                                !.generatedResults = <<>>, !.selectedSearchForAI = Null,
                                !.toast = "success", !.saves = @ + 1, !.picked = <<>>,
                                !.savedPicked = manager.picked, !.savedIds = end.ids]
                        ELSE [manager EXCEPT
                                !.toast = "error", !.saves = @ + 1,
                                !.savedPicked = manager.picked, !.savedIds = end.ids]
  /\ UNCHANGED <<admin, reader, form, wizard, service, download>>

(***************************************************************************)
(* The CSV export of BlogsManager.  A string is the sequence of its        *)
(* characters; the file is kept as the list of its lines.                  *)
(***************************************************************************)
MaxFieldLen == 1
MaxExported == 2

(* blog.content.replace(...).substring(0, 100) *)
ContentLimit == 100

Quote == "\""
Comma == ","

Chars == {"a", Comma, Quote}

(* The strings of at most n characters. *)
Strings(n) == UNION {[1..k -> Chars] : k \in 0..n}

(* The contents an exported blog can have: short ones, and ones that reach *)
(* the limit of the export with their last characters.                     *)
Contents ==
  {[i \in 1..k |-> "a"] \o t : k \in {0, ContentLimit - 1}, t \in Strings(MaxFieldLen)}

ExportedBlogs ==
  [id : {<<"1">>}, title : Strings(MaxFieldLen), slug : {<<"s">>},
   author : Strings(MaxFieldLen), status : {<<"d">>}, content : Contents]

(* str.replace(/"/g, '""') *)
RECURSIVE replaceQuotes(_)
replaceQuotes(str) ==
  IF str = <<>> THEN <<>>
  ELSE (IF Head(str) = Quote THEN <<Quote, Quote>> ELSE <<Head(str)>>)
       \o replaceQuotes(Tail(str))

substring(str, from, to) ==
  SubSeq(str, from + 1, IF to < Len(str) THEN to ELSE Len(str))

(* parts.join(separator) *)
RECURSIVE join(_, _)
join(parts, separator) ==
  IF parts = <<>> THEN <<>>
  ELSE IF Len(parts) = 1 THEN parts[1]
  ELSE parts[1] \o separator \o join(Tail(parts), separator)

headers == <<"ID", "Title", "Slug", "Author", "Status", "Content">>

(* The line exportToCSV writes for one blog. *)
exportRow(blog) ==
  join(<<blog.id,
         <<Quote>> \o replaceQuotes(blog.title) \o <<Quote>>,
         blog.slug,
         blog.author,
         blog.status,
         <<Quote>> \o substring(replaceQuotes(blog.content), 0, ContentLimit)
                   \o <<".", ".", ".", Quote>> >>,
       <<Comma>>)

NoDownload == [filename |-> "none", data |-> <<>>, csvContent |-> <<>>, toast |-> 0]

(* BlogsManager.exportToCSV *)
exportToCSV(data, filename) ==
  /\ download' = [filename |-> filename, data |-> data,
                  csvContent |-> <<join([i \in 1..Len(headers) |-> <<headers[i]>>],
                                        <<Comma>>)>>
                                 \o [k \in 1..Len(data) |-> exportRow(data[k])],
                  toast |-> Len(data)]
  /\ UNCHANGED <<db, admin, reader, form, wizard, service, manager>>

(* The first export of the listed blogs: all of them, or the ones whose    *)
(* position in the list is in selectedIds.                                 *)
handleExportAll ==
  download.filename = "none" /\ exportToCSV(download.data, "all-blogs.csv")

handleExportSelected(selectedIds) ==
  /\ download.filename = "none"
  /\ selectedIds \subseteq DOMAIN download.data
  /\ LET RECURSIVE filter(_)
         filter(k) ==
           IF k > Len(download.data) THEN <<>>
           ELSE (IF k \in selectedIds THEN <<download.data[k]>> ELSE <<>>) \o filter(k + 1)
     IN exportToCSV(filter(1), "selected-blogs.csv")

(***************************************************************************)
(* The generate-blog function serving a request for content, step by step: *)
(* the gateway is called for the body text, then for the related searches, *)
(* then for the image.  There are two builds of the function: the first    *)
(* returns the phrases the gateway gave, the second pads them.             *)
(***************************************************************************)
MaxTextLines == 7
MaxPhrases == 6

GatewayOutcomes == {"ok", "non-success status", "network failure"}

IdleService ==
  [pc |-> "idle", build |-> 1, imageOnly |-> FALSE, content |-> FALSE,
   searchesText |-> <<>>, relatedSearches |-> <<>>, imageUrl |-> FALSE, status |-> 0]

(* The query the gateway wrote on line i of its answer. *)
Query(i) == "query " \o ToString(i)

(* The answers of the gateway to the related-searches prompt, as lines:    *)
(* each line is blank or a query.                                          *)
SearchesTexts ==
  UNION { { [i \in 1..n |-> IF k[i] THEN Query(i) ELSE " "] :
              k \in [1..n -> BOOLEAN] } : n \in 0..MaxTextLines }

trim(s) == IF s = " " THEN "" ELSE s

NonEmpty(s) == s # ""

(* .split('\n').map(trim).filter(length > 0).slice(0, 6) *)
parseSearches(searchesText) ==
  LET kept == SelectSeq([i \in 1..Len(searchesText) |-> trim(searchesText[i])], NonEmpty)
  IN SubSeq(kept, 1, IF Len(kept) < MaxPhrases THEN Len(kept) ELSE MaxPhrases)

Placeholder(n) == "Related search " \o ToString(n) \o " for topic"

(* while (relatedSearches.length < 6) push(`Related search ${length + 1} for topic`) *)
RECURSIVE padSearches(_)
padSearches(relatedSearches) ==
  IF Len(relatedSearches) < MaxPhrases
  THEN padSearches(Append(relatedSearches, Placeholder(Len(relatedSearches) + 1)))
  ELSE relatedSearches

(* The catch block of the function: status 500 with the error message. *)
Caught == [service EXCEPT !.pc = "responded", !.status = 500]

(* A request arriving at the function; an imageOnly request skips the text. *)
serve(build, imageOnly) ==
  /\ service.pc \in {"idle", "responded"}
  /\ service' = [IdleService EXCEPT !.build = build, !.imageOnly = imageOnly,
                                    !.pc = IF imageOnly THEN "image" ELSE "content"]
  /\ UNCHANGED <<db, admin, reader, form, wizard, manager, download>>

(* The gateway call for the body text; anything but ok throws. *)
serve_content(outcome) ==
  /\ service.pc = "content"
  /\ service' = IF outcome = "ok"
                THEN [service EXCEPT !.content = TRUE, !.pc = "searches"]
                ELSE Caught
  /\ UNCHANGED <<db, admin, reader, form, wizard, manager, download>>

(* The related searches, first build: the lines of the answer, six at      *)
(* most; a non-success status leaves the list empty.                       *)
serve_relatedSearches_v1(outcome, searchesText) ==
  /\ service.pc = "searches" /\ service.build = 1
  /\ service' =
       CASE outcome = "ok" ->
              [service EXCEPT !.searchesText = searchesText,
                              !.relatedSearches = parseSearches(searchesText),
                              !.pc = "image"]
         [] outcome = "non-success status" -> [service EXCEPT !.pc = "image"]
         [] OTHER -> Caught
  /\ UNCHANGED <<db, admin, reader, form, wizard, manager, download>>

(* The related searches, second build: the same, padded to six. *)
serve_relatedSearches(outcome, searchesText) ==
  /\ service.pc = "searches" /\ service.build = 2
  /\ service' =
       CASE outcome = "ok" ->
              [service EXCEPT !.searchesText = searchesText,
                              !.relatedSearches = padSearches(parseSearches(searchesText)),
                              !.pc = "image"]
         [] outcome = "non-success status" -> [service EXCEPT !.pc = "image"]
         [] OTHER -> Caught
  /\ UNCHANGED <<db, admin, reader, form, wizard, manager, download>>

(* The gateway call for the image and the answer of the function; a        *)
(* non-success status is logged and leaves imageUrl empty.                 *)
serve_image(outcome) ==
  /\ service.pc = "image"
  /\ service' =
       CASE outcome = "ok" -> [service EXCEPT !.imageUrl = TRUE, !.pc = "responded",
                                              !.status = 200]
         [] outcome = "non-success status" ->
              [service EXCEPT !.pc = "responded", !.status = 200]
         [] OTHER -> Caught
  /\ UNCHANGED <<db, admin, reader, form, wizard, manager, download>>

(***************************************************************************)
(* SpecAuthoring: one operator composing a blog, in the form or in the     *)
(* wizard, on an empty store.                                              *)
(***************************************************************************)
InitAuthoring ==
  /\ db = EmptyStore
  /\ admin = [a \in Admins |-> IdleAdmin]
  /\ reader = OpenedTab(1, 1, 1)
  /\ form = ClosedForm
  /\ wizard = UnmountedWizard
  /\ service = IdleService
  /\ manager = ClosedPanel
  /\ download = NoDownload

NextAuthoring ==
  \/ setIsCreating
  \/ \E outcome \in GenerationOutcomes : generateContentOnly(outcome)
  \/ \E index \in CandidateIndices : BM_selectSearch(index)
  \/ \E blogOk, searchesOk \in BOOLEAN : BM_handleSubmit(blogOk, searchesOk)
  \/ resetForm
  \/ BlogCreationWizard
  \/ \E field \in {"title", "details", "content"} : setBlogData(field)
  \/ \E outcome \in GenerationOutcomes : generateBlogContent(outcome)
  \/ regenerateBlogContent
  \/ \E index \in CandidateIndices : handleSearchSelect(index)
  \/ Next_RelatedSearches
  \/ Back_Blog
  \/ Next_WebResults
  \/ \E outcome \in ServiceOutcomes : generateImageOnly(outcome)
  \/ \E outcome \in ServiceOutcomes : generateWebResultsForSearch(outcome)
  \/ \E resultIdx \in 0..(NumWebCandidates - 1) : handleWebResultSelect(resultIdx)
  \/ Back_WebResults
  \/ NextSearch_WebResults
  \/ Next_PreLanding
  \/ \E outcome \in ServiceOutcomes : generatePreLandingForWebResult(outcome)
  \/ Back_PreLanding
  \/ NextSearch_PreLanding
  \/ Next_Review
  \/ Back_Review
  \/ \E failed \in FailureSets(wizard) : handleSaveAll(failed)

SpecAuthoring == InitAuthoring /\ [][NextAuthoring]_vars

(***************************************************************************)
(* The wizard with its requests in flight.  The operator works forward     *)
(* through the steps and takes no selection back; a request that was sent  *)
(* ends, one way or the other.                                             *)
(***************************************************************************)
InitInFlight ==
  /\ db = EmptyStore
  /\ admin = [a \in Admins |-> IdleAdmin]
  /\ reader = OpenedTab(1, 1, 1)
  /\ form = ClosedForm
  /\ wizard = UnmountedWizard
  /\ service = IdleService
  /\ manager = ClosedPanel
  /\ download = NoDownload

RequestOutcomes == {"ok", "network failure"}

generateBlogContent_ends == \E outcome \in GenerationOutcomes : generateBlogContent_end(outcome)

generateImageOnly_ends == \E outcome \in RequestOutcomes : generateImageOnly_end(outcome)

generateWebResultsForSearch_ends ==
  \E outcome \in RequestOutcomes : generateWebResultsForSearch_end(outcome)

generatePreLandingForWebResult_ends ==
  \E outcome \in RequestOutcomes : generatePreLandingForWebResult_end(outcome)

(* The save goes through, or the insert of the blog fails and throws. *)
handleSaveAll_ends ==
  \E failed \in {{}, {InsertPoint("blogs", 0, 0)}} : handleSaveAll_end(failed)

NextInFlight ==
  \/ BlogCreationWizard
  \/ \E field \in {"title", "details"} : setBlogData(field)
  \/ generateBlogContent_begin
  \/ generateBlogContent_ends
  \/ generateImageOnly_begin
  \/ generateImageOnly_ends
  \/ Next_RelatedSearches
  \/ \E index \in CandidateIndices :
       ~includes(wizard.selectedSearches, index) /\ handleSearchSelect(index)
  \/ Next_WebResults
  \/ generateWebResultsForSearch_begin
  \/ generateWebResultsForSearch_ends
  \/ \E resultIdx \in 0..(NumWebCandidates - 1) :
       /\ At("web-results")
       /\ ~includes(wizard.selectedWebResultsMap[CurrentSearchIdx], resultIdx)
       /\ handleWebResultSelect(resultIdx)
  \/ NextSearch_WebResults
  \/ Next_PreLanding
  \/ generatePreLandingForWebResult_begin
  \/ generatePreLandingForWebResult_ends
  \/ NextSearch_PreLanding
  \/ Next_Review
  \/ handleSaveAll_begin
  \/ handleSaveAll_ends

(* The request a handler holding isGenerating awaits ends; at most one of  *)
(* these handlers is awaiting at a time.                                   *)
RequestEnds ==
  \/ generateBlogContent_ends
  \/ generateWebResultsForSearch_ends
  \/ generatePreLandingForWebResult_ends
  \/ handleSaveAll_ends

SpecInFlight ==
  /\ InitInFlight /\ [][NextInFlight]_vars
  /\ WF_vars(RequestEnds)
  /\ WF_vars(generateImageOnly_ends)

(***************************************************************************)
(* SpecFunnel: one reader on the web-results page of a related search, on  *)
(* any store of web results and pre-landing config for it; the lookups of  *)
(* the tracking calls answer.                                              *)
(***************************************************************************)
InitFunnel ==
  /\ db \in FunnelStores
  /\ admin = [a \in Admins |-> IdleAdmin]
  /\ \E wrBuild \in Builds, plBuild \in Builds : reader = OpenedTab(1, wrBuild, plBuild)
  /\ form = ClosedForm
  /\ wizard = UnmountedWizard
  /\ service = IdleService
  /\ manager = ClosedPanel
  /\ download = NoDownload

NextFunnel ==
  \/ fetchWebResults
  \/ fetchWebResults_v2
  \/ \E i \in ResultIds : handleVisitClick(i)
  \/ \E ok \in BOOLEAN : trackEvent(TRUE, TRUE, ok)
  \/ \E state \in Urls \cup {Null} : PreLanding(state)
  \/ fetchConfig
  \/ setEmail
  \/ handleSubmit_setLoading
  \/ \E ok \in BOOLEAN : handleSubmit_v1(TRUE, ok)
  \/ \E ok \in BOOLEAN : handleSubmit(TRUE, ok)
  \/ redirect

SpecFunnel == InitFunnel /\ [][NextFunnel]_vars

(***************************************************************************)
(* SpecGeneration: the generate-blog function, in either build, serving    *)
(* one request after the other.                                            *)
(***************************************************************************)
InitGeneration ==
  /\ db = EmptyStore
  /\ admin = [a \in Admins |-> IdleAdmin]
  /\ reader = OpenedTab(1, 1, 1)
  /\ form = ClosedForm
  /\ wizard = UnmountedWizard
  /\ service = IdleService
  /\ manager = ClosedPanel
  /\ download = NoDownload

NextGeneration ==
  \/ \E build \in Builds, imageOnly \in BOOLEAN : serve(build, imageOnly)
  \/ \E outcome \in GatewayOutcomes : serve_content(outcome)
  \/ \E outcome \in GatewayOutcomes, searchesText \in SearchesTexts :
       serve_relatedSearches_v1(outcome, searchesText)
  \/ \E outcome \in GatewayOutcomes, searchesText \in SearchesTexts :
       serve_relatedSearches(outcome, searchesText)
  \/ \E outcome \in GatewayOutcomes : serve_image(outcome)

SpecGeneration == InitGeneration /\ [][NextGeneration]_vars

(***************************************************************************)
(* SpecWebResults: one operator at the AI generation panel of              *)
(* WebResultsManager, on a store with blogs and related searches and no    *)
(* web results yet.                                                        *)
(***************************************************************************)
PanelStores ==
  {d \in StoreStates :
     /\ d.related_searches # {}
     /\ d.web_results = {} /\ d.pre_landing_config = {}
     /\ d.analytics_events = {} /\ d.email_submissions = {}}

InitWebResults ==
  /\ db \in PanelStores
  /\ admin = [a \in Admins |-> IdleAdmin]
  /\ reader = OpenedTab(1, 1, 1)
  /\ form = ClosedForm
  /\ wizard = UnmountedWizard
  /\ service = IdleService
  /\ manager = ClosedPanel
  /\ download = NoDownload

NextWebResults ==
  \/ \E id \in SearchIds : setSelectedSearchForAI(id)
  \/ \E outcome \in ServiceOutcomes : WRM_generateWebResults(outcome)
  \/ \E index \in 0..(NumWebCandidates - 1) : toggleGeneratedResultSelection(index)
  \/ \E failAt \in 0..RequiredWebResults : saveSelectedResults(failAt)

SpecWebResults == InitWebResults /\ [][NextWebResults]_vars

(***************************************************************************)
(* SpecExport: the operator exporting the blogs BlogsManager lists, all of  *)
(* them or the selected ones; data holds the list before the export.       *)
(***************************************************************************)
InitExport ==
  /\ db = EmptyStore
  /\ admin = [a \in Admins |-> IdleAdmin]
  /\ reader = OpenedTab(1, 1, 1)
  /\ form = ClosedForm
  /\ wizard = UnmountedWizard
  /\ service = IdleService
  /\ manager = ClosedPanel
  /\ \E n \in 0..MaxExported : \E data \in [1..n -> ExportedBlogs] :
       download = [NoDownload EXCEPT !.data = data]

NextExport ==
  \/ handleExportAll
  \/ \E selectedIds \in SUBSET (1..MaxExported) : handleExportSelected(selectedIds)

SpecExport == InitExport /\ [][NextExport]_vars

(***************************************************************************)
(* SpecRace: admin sessions deleting blogs, one by one or in bulk, while   *)
(* readers' tabs write tracking rows; each session runs one delete.        *)
(* Nothing orders the calls of one                                         *)
(* session against those of another or against the inserts; the store      *)
(* answers every call, and refuses an insert whose references do not       *)
(* exist.                                                                  *)
(***************************************************************************)
NumRacers == 2
MaxRaceInserts == 1

Racers == 1..NumRacers

RaceStores ==
  {d \in StoreStates :
     /\ d.related_searches # {}
     /\ \A x, y \in d.related_searches : x.blog_id = y.blog_id
     /\ d.web_results = {} /\ d.pre_landing_config = {}
     /\ d.analytics_events = {} /\ d.email_submissions = {}}

TrackedRows == Cardinality(db.analytics_events) + Cardinality(db.email_submissions)

(* trackEvent of some reader's tab reaching its insert. *)
trackEvent_anyTab(blogId, relatedSearchId, sessionId) ==
  /\ TrackedRows < MaxRaceInserts
  /\ db' = InsertAnalyticsEvent(db, blogId, relatedSearchId, sessionId,
                                IpAddress, CountryName,
                                /\ blogId \in db.blogs \cup {Null}
                                /\ relatedSearchId \in Ids(db.related_searches) \cup {Null})
  /\ db' # db
  /\ UNCHANGED <<admin, reader, form, wizard, service, manager, download>>

(* trackEmailSubmission of some reader's tab reaching its insert. *)
trackEmailSubmission_anyTab(relatedSearchId, sessionId) ==
  /\ TrackedRows < MaxRaceInserts
  /\ db' = InsertEmailSubmission(db, relatedSearchId, sessionId, IpAddress,
                                 relatedSearchId \in Ids(db.related_searches) \cup {Null})
  /\ db' # db
  /\ UNCHANGED <<admin, reader, form, wizard, service, manager, download>>

InitRace ==
  /\ db \in RaceStores
  /\ admin = [a \in Racers |-> IdleAdmin]
  /\ reader = OpenedTab(1, 1, 1)
  /\ form = ClosedForm
  /\ wizard = UnmountedWizard
  /\ service = IdleService
  /\ manager = ClosedPanel
  /\ download = NoDownload

NextRace ==
  \/ \E a \in Racers, id \in BlogIds :
       admin[a].kind = "none" /\ BM_handleDelete(a, id)
  \/ \E a \in Racers : BM_deleteEmailSubmissions(a)
  \/ \E a \in Racers : BM_deleteAnalyticsEvents(a)
  \/ \E a \in Racers : BM_deletePreLandingConfig(a)
  \/ \E a \in Racers : BM_deleteWebResults(a)
  \/ \E a \in Racers : BM_deleteBlogAnalytics(a)
  \/ \E a \in Racers : BM_deleteRelatedSearches(a)
  \/ \E a \in Racers : BM_deleteBlog(a)
  \/ \E a \in Racers, id \in db.blogs :
       admin[a].kind = "none" /\ BM_handleDeleteSelected(a, <<id>>)
  \/ \E a \in Racers : BM_handleDeleteSingle(a, "ok")
  \/ \E a \in Racers : BMS_deleteEmailSubmissions(a, "ok")
  \/ \E a \in Racers : BMS_deleteAnalyticsEvents(a, "ok")
  \/ \E a \in Racers : BMS_deletePreLandingConfig(a, "ok")
  \/ \E a \in Racers : BMS_deleteWebResults(a, "ok")
  \/ \E a \in Racers : BMS_deleteBlogAnalytics(a, "ok")
  \/ \E a \in Racers : BMS_deleteRelatedSearches(a, "ok")
  \/ \E a \in Racers : BMS_deleteBlog(a, "ok")
  \/ \E a \in Racers : BM_handleDeleteSelected_end(a)
  \/ \E blogId \in BlogIds : trackEvent_anyTab(blogId, Null, 1)
  \/ \E relatedSearchId \in SearchIds : trackEvent_anyTab(Null, relatedSearchId, 1)
  \/ \E relatedSearchId \in SearchIds : trackEmailSubmission_anyTab(relatedSearchId, 1)

SpecRace == InitRace /\ [][NextRace]_vars

(***************************************************************************)
(* SpecTracking: the same reader with the tracking calls of the pages in   *)
(* full: the page view of the mount effect, and lookups and inserts that   *)
(* can fail.  The store holds unsponsored results in one rank.             *)
(***************************************************************************)
TrackingStores ==
  {d \in FunnelStores : \A w \in d.web_results : w.order_index = 0 /\ ~w.is_sponsored}

InitTracking ==
  /\ db \in TrackingStores
  /\ admin = [a \in Admins |-> IdleAdmin]
  /\ \E wrBuild \in Builds, plBuild \in Builds : reader = OpenedTab(1, wrBuild, plBuild)
  /\ form = ClosedForm
  /\ wizard = UnmountedWizard
  /\ service = IdleService
  /\ manager = ClosedPanel
  /\ download = NoDownload

NextTracking ==
  \/ fetchWebResults
  \/ fetchWebResults_v2
  \/ trackPageView
  \/ \E i \in ResultIds : handleVisitClick(i)
  \/ \E ipOk \in BOOLEAN, countryOk \in BOOLEAN, ok \in BOOLEAN :
       trackEvent(ipOk, countryOk, ok)
  \/ \E state \in Urls \cup {Null} : PreLanding(state)
  \/ fetchConfig
  \/ setEmail
  \/ handleSubmit_setLoading
  \/ \E ipOk \in BOOLEAN, ok \in BOOLEAN : handleSubmit_v1(ipOk, ok)
  \/ \E ipOk \in BOOLEAN, ok \in BOOLEAN : handleSubmit(ipOk, ok)
  \/ redirect

SpecTracking == InitTracking /\ [][NextTracking]_vars

(***************************************************************************)
(* Spec: one operator working through the admin console, started on any    *)
(* store.                                                                  *)
(***************************************************************************)
Init ==
  /\ db \in StoreStates
  /\ admin = [a \in Admins |-> IdleAdmin]
  /\ reader = OpenedTab(1, 1, 1)
  /\ form = ClosedForm
  /\ wizard = UnmountedWizard
  /\ service = IdleService
  /\ manager = ClosedPanel
  /\ download = NoDownload

Next ==
  \/ \E id \in BlogIds : BM_handleDelete(Operator, id)
  \/ BM_deleteEmailSubmissions(Operator)
  \/ BM_deleteAnalyticsEvents(Operator)
  \/ BM_deletePreLandingConfig(Operator)
  \/ BM_deleteWebResults(Operator)
  \/ BM_deleteBlogAnalytics(Operator)
  \/ BM_deleteRelatedSearches(Operator)
  \/ BM_deleteBlog(Operator)
  \/ \E id \in SearchIds : RS_handleDelete(Operator, id)
  \/ RS_deleteAnalyticsEvents(Operator)
  \/ RS_deletePreLandingConfig(Operator)
  \/ RS_deleteWebResults(Operator)
  \/ RS_deleteRelatedSearch(Operator)
  \/ \E id \in SearchIds : RSM_handleDelete(Operator, id)

Spec == Init /\ [][Next]_vars

(***************************************************************************)
(* SpecBulk: one operator deleting blogs and related searches, one at a    *)
(* time or in bulk, started on a store where each related search is        *)
(* referenced from every child table or from none.                         *)
(***************************************************************************)
BulkStores ==
  {d \in StoreStates :
     \A r \in Ids(d.related_searches) :
       ReferencingTables(d, {r}, Null) \in
         {{}, {"email_submissions", "analytics_events", "pre_landing_config", "web_results"}}}

InitBulk ==
  /\ db \in BulkStores
  /\ admin = [a \in Admins |-> IdleAdmin]
  /\ reader = OpenedTab(1, 1, 1)
  /\ form = ClosedForm
  /\ wizard = UnmountedWizard
  /\ service = IdleService
  /\ manager = ClosedPanel
  /\ download = NoDownload

NextBulk ==
  \/ \E id \in BlogIds : BM_handleDelete(Operator, id)
  \/ BM_deleteEmailSubmissions(Operator)
  \/ BM_deleteAnalyticsEvents(Operator)
  \/ BM_deletePreLandingConfig(Operator)
  \/ BM_deleteWebResults(Operator)
  \/ BM_deleteBlogAnalytics(Operator)
  \/ BM_deleteRelatedSearches(Operator)
  \/ BM_deleteBlog(Operator)
  \/ \E ids \in SUBSET db.blogs : \E order \in Orders(ids) :
       BM_handleDeleteSelected(Operator, order)
  \/ \E outcome \in CallOutcomes : BM_handleDeleteSingle(Operator, outcome)
  \/ \E outcome \in CallOutcomes : BMS_deleteEmailSubmissions(Operator, outcome)
  \/ \E outcome \in CallOutcomes : BMS_deleteAnalyticsEvents(Operator, outcome)
  \/ \E outcome \in CallOutcomes : BMS_deletePreLandingConfig(Operator, outcome)
  \/ \E outcome \in CallOutcomes : BMS_deleteWebResults(Operator, outcome)
  \/ \E outcome \in CallOutcomes : BMS_deleteBlogAnalytics(Operator, outcome)
  \/ \E outcome \in CallOutcomes : BMS_deleteRelatedSearches(Operator, outcome)
  \/ \E outcome \in CallOutcomes : BMS_deleteBlog(Operator, outcome)
  \/ BM_handleDeleteSelected_end(Operator)
  \/ \E ids \in SUBSET Ids(db.related_searches) : \E order \in Orders(ids) :
       RS_handleDeleteSelected(Operator, order)
  \/ \E outcome \in CallOutcomes : RSS_deleteEmailSubmissions(Operator, outcome)
  \/ \E outcome \in CallOutcomes : RSS_deleteAnalyticsEvents(Operator, outcome)
  \/ \E outcome \in CallOutcomes : RSS_deletePreLandingConfig(Operator, outcome)
  \/ \E outcome \in CallOutcomes : RSS_deleteWebResults(Operator, outcome)
  \/ \E outcome \in CallOutcomes : RSS_deleteRelatedSearch(Operator, outcome)
  \/ RS_handleDeleteSelected_end(Operator)

SpecBulk == InitBulk /\ [][NextBulk]_vars

(***************************************************************************)
(* Cascade deletion.                                                       *)
(***************************************************************************)
NoRowReferencesSearches(d, rids) ==
  /\ \A x \in d.web_results : x.related_search_id \notin rids
  /\ \A x \in d.pre_landing_config : x.related_search_id \notin rids
  /\ \A x \in d.analytics_events : x.related_search_id \notin rids
  /\ \A x \in d.email_submissions : x.related_search_id \notin rids

Finished(a, kind) == admin[a].kind = kind /\ admin[a].pc = "idle"

C10_DeleteSearchLeavesNothing ==
  \A a \in Admins :
    (Finished(a, "RS_handleDelete") \/ Finished(a, "RSM_handleDelete")) =>
      /\ NoRowReferencesSearches(db, {admin[a].id})
      /\ admin[a].id \notin Ids(db.related_searches)

(***************************************************************************)
(* Order of the deletes.                                                   *)
(***************************************************************************)

(* The tables the Delete-Blog sequence deletes from, in the order of its   *)
(* statements.                                                             *)
StageTable ==
  <<"email_submissions", "analytics_events", "pre_landing_config", "web_results",
    "analytics_events", "related_searches", "blogs">>

StagePcs ==
  <<{"bm_email_submissions", "bms_email_submissions"},
    {"bm_analytics_events", "bms_analytics_events"},
    {"bm_pre_landing_config", "bms_pre_landing_config"},
    {"bm_web_results", "bms_web_results"},
    {"bm_blog_analytics", "bms_blog_analytics"},
    {"bm_related_searches", "bms_related_searches"},
    {"bm_blogs", "bms_blogs"}>>

(* The position of the Delete-Blog sequence a session is at, 0 outside it. *)
Stage(a) ==
  IF \E k \in 1..7 : admin[a].pc \in StagePcs[k]
  THEN CHOOSE k \in 1..7 : admin[a].pc \in StagePcs[k]
  ELSE 0

C12_BulkDeleteIsBestEffort ==
  \A a \in Admins :
    admin[a].kind \in {"BM_handleDeleteSelected", "RS_handleDeleteSelected"} =>
      /\ \A i, j \in 1..Len(admin[a].done) : i # j => admin[a].done[i] # admin[a].done[j]
      /\ \A i \in 1..Len(admin[a].done) : admin[a].done[i] \in admin[a].selectedIds
      /\ admin[a].pc = "idle" =>
           /\ {admin[a].done[i] : i \in 1..Len(admin[a].done)} = admin[a].selectedIds
           /\ \A id \in admin[a].selectedIds \ admin[a].failedIds :
                IF admin[a].kind = "BM_handleDeleteSelected"
                THEN /\ id \notin db.blogs
                     /\ \A x \in db.related_searches : x.blog_id # id
                     /\ \A x \in db.analytics_events : x.blog_id # id
                ELSE /\ id \notin Ids(db.related_searches)
                     /\ NoRowReferencesSearches(db, {id})

(* A bulk delete of two blogs has ended: a call failed for the first id    *)
(* the loop took, and the second one is deleted.                           *)
C12_Witness ==
  \E a \in Admins :
    /\ admin[a].kind = "BM_handleDeleteSelected" /\ admin[a].pc = "idle"
    /\ Len(admin[a].done) = 2
    /\ admin[a].failedIds = {admin[a].done[1]}
    /\ admin[a].done[1] \in db.blogs
    /\ admin[a].done[2] \notin db.blogs

(***************************************************************************)
(* Visit-destination resolution.                                           *)
(***************************************************************************)
ArrivedByVisit == reader.via = "visit" /\ reader.page # "web_results"

(* C2: when the reader has clicked the visit Link of a web result with     *)
(* url U whose related search has a pre-landing config, the pre-landing    *)
(* page holds U as the override in its navigation state, and the redirect  *)
(* armed or performed after an email submission goes to U.                 *)
C2_VisitCarriesOverride ==
  (ArrivedByVisit /\ HasPreLanding(db, reader.searchId)) =>
    /\ reader.state = reader.clicked
    /\ reader.submitted => (reader.timer = reader.clicked \/ reader.href = reader.clicked)

(* C3: when the reader has clicked the visit Link of a web result whose    *)
(* related search has no pre-landing config, the tab has gone straight to  *)
(* that result's url and no pre-landing page is shown.                     *)
C3_VisitWithoutPreLandingGoesDirect ==
  (ArrivedByVisit /\ ~HasPreLanding(db, reader.searchId)) =>
    /\ reader.page # "pre_landing"
    /\ reader.href = reader.clicked

C5_SponsoredFirstThenOrderIndex ==
  reader.fetched =>
    \A i, j \in 1..Len(reader.webResults) :
      i < j =>
        LET a == reader.webResults[i]
            b == reader.webResults[j]
        IN /\ ~(b.is_sponsored /\ ~a.is_sponsored)
           /\ (a.is_sponsored <=> b.is_sponsored) => a.order_index <= b.order_index

(***************************************************************************)
(* Claims about authoring, checked under SpecAuthoring.                    *)
(***************************************************************************)

(* The blog the wizard's last successful save created, Null before it. *)
SavedBlog == IF wizard.toast = "saved" THEN wizard.log[1].row.id ELSE Null

(* Claim C6: the wr of a selected phrase is its 1-based position in the    *)
(* selection order.  Every click on a phrase, in the wizard and in the     *)
(* form, leaves the selection alone, removes one phrase keeping the order  *)
(* of the others, or puts a phrase that was not selected at the end; and   *)
(* every related search a save persisted carries as wr the position its    *)
(* phrase had in the selection the save ran with.                          *)
C6_WrIsSelectionPosition ==
  /\ [](\A r \in db.related_searches :
          LET sel == IF r.blog_id = SavedBlog THEN wizard.saved
                     ELSE IF r.blog_id = form.created THEN form.submitted ELSE <<>>
          IN (r.blog_id = SavedBlog \/ r.blog_id = form.created) =>
               /\ r.wr \in 1..Len(sel)
               /\ r.search_text \in {GeneratedPhrases[sel[r.wr] + 1],
                                      OtherPhrases[sel[r.wr] + 1]})
  /\ [][LET click(old, new) ==
              \/ new = old
              \/ \E x \in CandidateIndices : ~includes(old, x) /\ new = Append(old, x)
              \/ \E k \in 1..Len(old) :
                   new = SubSeq(old, 1, k - 1) \o SubSeq(old, k + 1, Len(old))
         IN /\ (form.isCreating /\ form'.isCreating) =>
                 click(form.selectedSearches, form'.selectedSearches)
            /\ (~WizardClosed /\ wizard'.currentStep # "closed") =>
                 click(wizard.selectedSearches, wizard'.selectedSearches)]_vars

(* A wizard save after a phrase was deselected and selected again: the     *)
(* phrase with the lower index carries the higher wr.                      *)
C6_Witness ==
  /\ wizard.toast = "saved" /\ wizard.deselects > 0
  /\ \E r1, r2 \in db.related_searches :
       /\ r1.blog_id = SavedBlog /\ r2.blog_id = SavedBlog
       /\ r1.wr < r2.wr /\ r1.search_text > r2.search_text

(* Claim C7: no stage after the selection of phrases is entered, and no    *)
(* blog is persisted, while the number of selected phrases differs from 4. *)
C7_ExactlyFourToProceed ==
  /\ wizard.currentStep \in {"web-results", "pre-landing", "review"} =>
       Len(wizard.selectedSearches) = RequiredSearches
  /\ wizard.toast = "saved" => Len(wizard.saved) = RequiredSearches
  /\ form.created # Null => Len(form.submitted) = RequiredSearches

(* Claim C8: handleSaveAll inserts the blog first; then, phrase by phrase  *)
(* in wr order, the related search, its selected web results in selection  *)
(* order and its pre-landing config; every child follows its parent.       *)
C8_SaveOrder ==
  wizard.toast = "saved" =>
    LET log == wizard.log
        rank(e) == CASE e.table = "blogs" -> 0
                     [] e.table = "related_searches" -> 1
                     [] e.table = "web_results" -> 2
                     [] e.table = "pre_landing_config" -> 3
        owner(e) == IF e.table = "related_searches" THEN e.row.id
                    ELSE e.row.related_search_id
        wrOf(e) == (CHOOSE r \in db.related_searches : r.id = owner(e)).wr
    IN /\ log[1].table = "blogs"
       /\ \A j \in 2..Len(log) :
            /\ log[j].table # "blogs"
            /\ \E i \in 1..(j - 1) :
                 IF log[j].table = "related_searches"
                 THEN log[i].table = "blogs" /\ log[i].row.id = log[j].row.blog_id
                 ELSE log[i].table = "related_searches" /\ log[i].row.id = owner(log[j])
       /\ \A i, j \in 2..Len(log) : i < j =>
            \/ wrOf(log[i]) < wrOf(log[j])
            \/ /\ wrOf(log[i]) = wrOf(log[j])
               /\ \/ rank(log[i]) < rank(log[j])
                  \/ /\ log[i].table = "web_results" /\ log[j].table = "web_results"
                     /\ log[i].row.order_index < log[j].row.order_index
       /\ \A j \in 2..Len(log) :
            LET searchIdx == wizard.saved[wrOf(log[j])]
            IN /\ log[j].table = "related_searches" =>
                    log[j].row.search_text = wizard.generatedSearches[searchIdx + 1]
               /\ log[j].table = "web_results" =>
                    log[j].row.url =
                      wizard.webResultsMap[searchIdx][
                        wizard.selectedWebResultsMap[searchIdx][log[j].row.order_index + 1] + 1]

(* A save that inserted, for one related search, web results and then a    *)
(* pre-landing config, and after them another related search.              *)
C8_Witness ==
  /\ wizard.toast = "saved"
  /\ \E i, j, k \in 1..Len(wizard.log) :
       /\ i < j /\ j < k
       /\ wizard.log[i].table = "web_results"
       /\ wizard.log[j].table = "pre_landing_config"
       /\ wizard.log[j].row.related_search_id = wizard.log[i].row.related_search_id
       /\ wizard.log[k].table = "related_searches"

(* Claim C9: after a wizard save in which every insert succeeded, the new  *)
(* unit is one blog, exactly 4 related searches owned by it with the wr    *)
(* values 1, 2, 3, 4, at most 4 web results and at most one pre-landing    *)
(* config for each of them.                                                *)
C9_SavedUnit ==
  (wizard.toast = "saved" /\ wizard.failed = {}) =>
    LET owned == {r \in db.related_searches : r.blog_id = SavedBlog}
    IN /\ SavedBlog \in db.blogs
       /\ Cardinality({i \in 1..Len(wizard.log) : wizard.log[i].table = "blogs"}) = 1
       /\ Cardinality(owned) = 4
       /\ \A r1, r2 \in owned : r1.wr = r2.wr => r1 = r2
       /\ {r.wr : r \in owned} = 1..4
       /\ \A r \in owned :
            /\ Cardinality({w \in db.web_results : w.related_search_id = r.id}) <= 4
            /\ Cardinality({c \in db.pre_landing_config : c.related_search_id = r.id}) <= 1

(* A save without a failed insert that persisted web results and a         *)
(* pre-landing config.                                                     *)
C9_Witness ==
  /\ wizard.toast = "saved" /\ wizard.failed = {}
  /\ Cardinality(db.related_searches) = 4
  /\ db.web_results # {}
  /\ db.pre_landing_config # {}

(***************************************************************************)
(* Errors of a save and of the generation service.                         *)
(***************************************************************************)

(* Claim C13: a save in which an insert failed shows no success            *)
(* notification: the wizard's "saved" toast follows only a save without a  *)
(* failed insert, and the form's success toast after a submit with four    *)
(* selected phrases means the four related searches are stored.            *)
C13_FailedSaveIsReported ==
  /\ wizard.toast = "saved" => wizard.failed = {}
  /\ (form.toast = "success" /\ ~form.isCreating /\ form.created # Null
        /\ Len(form.submitted) = RequiredSearches) =>
       Cardinality({r \in db.related_searches : r.blog_id = form.created}) = RequiredSearches

C15_ServiceErrorIsNotified ==
  wizard.failedCall # "none" => wizard.toast = "error"

(***************************************************************************)
(* C16.  Tracking is fire-and-forget.  No tracking failure reaches the     *)
(* reader (no error toast is ever shown); a submit of the email form       *)
(* toasts success and arms the redirect to the URL its build chooses,      *)
(* whatever the lookup and the insert of trackEmailSubmission did; and a   *)
(* trackEvent call that ends, failed or not, leaves the page, the timer,   *)
(* the toast and the address of the tab as they were.                      *)
(***************************************************************************)
C16_SubmitRedirect ==
  IF reader.plBuild = 1 THEN handleSubmit_v1_redirect ELSE handleSubmit_redirect

C17_LookupFailureIsUnknown ==
  LET e == reader.lastEvent
  IN e.event_type # "none" =>
       /\ e.attempted
       /\ e.ok =>
            \E x \in db.analytics_events :
              /\ x.id = e.id
              /\ ~e.ipOk => x.ip_address = "unknown"
              /\ ~e.countryOk => x.country = "unknown"
              /\ e.ipOk => x.ip_address = IpAddress
              /\ (e.ipOk /\ e.countryOk) => x.country = CountryName
              /\ x.session_id \in SessionIds
              /\ e.event_type = "visit_now_click" => x.related_search_id = reader.searchId

(* A row written although a lookup had failed. *)
C17_Witness ==
  /\ reader.lastEvent.ok /\ ~reader.lastEvent.ipOk
  /\ \E x \in db.analytics_events :
       /\ x.id = reader.lastEvent.id
       /\ x.ip_address = "unknown" /\ x.country = "unknown"
  /\ \E x \in db.analytics_events : x.ip_address = IpAddress /\ x.country = "unknown"

(***************************************************************************)
(* C18.  The session id is made once: the item in sessionStorage never     *)
(* changes after it was set, and every analytics event, every email        *)
(* submission and every tracking call in flight of the tab carries it.     *)
(***************************************************************************)
C18_OneSessionId ==
  /\ [](/\ \A x \in db.analytics_events : x.session_id = reader.sessionStorage
        /\ \A x \in db.email_submissions : x.session_id = reader.sessionStorage
        /\ \A i \in 1..Len(reader.pending) :
             reader.pending[i].session_id = reader.sessionStorage)
  /\ [][reader.sessionStorage # Null =>
          reader'.sessionStorage = reader.sessionStorage]_vars

(* Two analytics events and an email submission of the same session. *)
C18_Witness ==
  /\ Cardinality(db.analytics_events) >= 2
  /\ db.email_submissions # {}
  /\ reader.sessionStorage # Null

(***************************************************************************)
(* C19.  A request for content that the function answers carries between   *)
(* 1 and 6 phrases; when the gateway gave fewer than 6 queries the list    *)
(* has exactly 6 entries, and each entry after the queries is the          *)
(* placeholder of its own 1-based position.                                *)
(***************************************************************************)
C19_Returned ==
  Cardinality({i \in 1..Len(service.searchesText) : trim(service.searchesText[i]) # ""})

C19_OneToSixPadded ==
  (service.pc = "responded" /\ service.status = 200 /\ ~service.imageOnly) =>
    /\ Len(service.relatedSearches) \in 1..MaxPhrases
    /\ C19_Returned < MaxPhrases =>
         /\ Len(service.relatedSearches) = MaxPhrases
         /\ \A i \in (C19_Returned + 1)..MaxPhrases :
              service.relatedSearches[i] = Placeholder(i)

(***************************************************************************)
(* C20.  In the AI generation panel at most 4 results are ticked, and the  *)
(* rows of a save follow the order in which the operator ticked them: the  *)
(* k-th row inserted has order_index k - 1 and is the result ticked k-th,  *)
(* where a result unticked and ticked again counts as ticked last.         *)
(***************************************************************************)
C20_SavedInSelectionOrder ==
  /\ Len(SelectedIndices(manager.generatedResults, 1)) <= RequiredWebResults
  /\ \A k \in 1..Len(manager.savedIds) :
       \E x \in db.web_results :
         /\ x.id = manager.savedIds[k]
         /\ x.order_index = k - 1
         /\ \E searchId \in SearchIds :
              x.url = GeneratedUrl(searchId, manager.savedPicked[k])

(***************************************************************************)
(* C21.  The exported file has the header line first and one line for each *)
(* blog; read as CSV, the line of a blog has the six fields of the header, *)
(* and its title, author and content fields are quoted fields in which     *)
(* every double quote of the text is doubled.                              *)
(***************************************************************************)
(* Reading a line as CSV from position pos on: the fields found so far,    *)
(* which of them were quoted, and whether the line is well formed.  A      *)
(* quoted field ends at a quote that no second quote follows, and a comma  *)
(* or the end of the line must come next; a bare field holds no quote.     *)
C21_Find(line, pos, stops) ==
  LET hits == {i \in pos..Len(line) : line[i] \in stops}
  IN IF hits = {} THEN Len(line) + 1 ELSE CHOOSE i \in hits : \A j \in hits : i <= j

RECURSIVE C21_ReadQuoted(_, _, _)
C21_ReadQuoted(line, pos, text) ==
  LET q == C21_Find(line, pos, {Quote})
      read == text \o SubSeq(line, pos, q - 1)
  IN IF q > Len(line) THEN [ok |-> FALSE, text |-> read, next |-> q]
     ELSE IF q < Len(line) /\ line[q + 1] = Quote
     THEN C21_ReadQuoted(line, q + 2, Append(read, Quote))
     ELSE [ok |-> q = Len(line) \/ line[q + 1] = Comma, text |-> read, next |-> q + 1]

C21_ReadBare(line, pos) ==
  LET q == C21_Find(line, pos, {Comma, Quote})
  IN [ok |-> q > Len(line) \/ line[q] = Comma, text |-> SubSeq(line, pos, q - 1),
      next |-> q]

RECURSIVE C21_ReadLine(_, _, _)
C21_ReadLine(line, pos, fields) ==
  LET quoted == pos <= Len(line) /\ line[pos] = Quote
      field == IF quoted THEN C21_ReadQuoted(line, pos + 1, <<>>)
               ELSE C21_ReadBare(line, pos)
      found == Append(fields, [text |-> field.text, quoted |-> quoted])
  IN IF ~field.ok THEN [ok |-> FALSE, fields |-> found]
     ELSE IF field.next > Len(line) THEN [ok |-> TRUE, fields |-> found]
     ELSE C21_ReadLine(line, field.next + 1, found)

C21_QuotedFields ==
  download.filename # "none" =>
    /\ Len(download.csvContent) = 1 + Len(download.data)
    /\ download.csvContent[1] = <<"ID", Comma, "Title", Comma, "Slug", Comma, "Author",
                                  Comma, "Status", Comma, "Content">>
    /\ \A k \in 1..Len(download.data) :
         LET row == C21_ReadLine(download.csvContent[k + 1], 1, <<>>)
         IN /\ row.ok
            /\ Len(row.fields) = Len(headers)
            /\ row.fields[2].quoted /\ row.fields[2].text = download.data[k].title
            /\ row.fields[4].quoted /\ row.fields[4].text = download.data[k].author
            /\ row.fields[6].quoted

(***************************************************************************)
(* C22.  Whatever the other session and the readers' tabs do in between,   *)
(* a session whose delete of a blog ended with the success toast leaves    *)
(* the blog gone, with its related searches and with every row that        *)
(* references it or a search it owned when the delete began.  For a bulk   *)
(* delete this holds of every blog it took.                                *)
(***************************************************************************)
C22_Gone(b) ==
  /\ b \notin db.blogs
  /\ \A x \in db.related_searches : x.blog_id # b
  /\ \A x \in db.analytics_events : x.blog_id # b

C22_SuccessMeansGone ==
  \A a \in DOMAIN admin :
    (admin[a].pc = "idle" /\ admin[a].toast = "success") =>
      /\ admin[a].kind = "BM_handleDelete" =>
           C22_Gone(admin[a].id) /\ NoRowReferencesSearches(db, admin[a].owned)
      /\ admin[a].kind = "BM_handleDeleteSelected" =>
           /\ \A id \in admin[a].selectedIds : C22_Gone(id)
           /\ NoRowReferencesSearches(db, admin[a].owned)

(***************************************************************************)
(* C23.  The wizard shows its pre-landing and review steps, and has saved, *)
(* only with exactly 4 web results selected for every selected phrase: no  *)
(* sequence of Next and Back buttons and of clicks on phrases and results  *)
(* reaches these steps or a save with a selected phrase that has fewer or  *)
(* more than 4.                                                            *)
(***************************************************************************)
C23_FourEach(selected) ==
  \A i \in 1..Len(selected) :
    Len(wizard.selectedWebResultsMap[selected[i]]) = 4

C23_FourResultsBeyondWebResults ==
  /\ wizard.currentStep \in {"pre-landing", "review"} => C23_FourEach(wizard.selectedSearches)
  /\ wizard.toast = "saved" => C23_FourEach(wizard.saved)

(* The review step reached again after the operator went back and took a   *)
(* selection away on the way.                                              *)
C23_Witness ==
  /\ wizard.currentStep = "review"
  /\ Len(wizard.selectedSearches) = 4
  /\ wizard.backs > 0 /\ wizard.deselects > 0

(***************************************************************************)
(* C24.  The selected indices are indices of the phrase list, and what a   *)
(* save persists under a phrase was generated for that phrase: every web   *)
(* result row the wizard saved under a related search has one of the urls  *)
(* the service generated for the search_text of that related search,       *)
(* also when the content generation was run again from the blog step.      *)
(***************************************************************************)
C24_KeysReferToTheirPhrase ==
  /\ \A i \in 1..Len(wizard.selectedSearches) :
       wizard.selectedSearches[i] \in 0..(Len(wizard.generatedSearches) - 1)
  /\ \A r \in db.related_searches : \A x \in db.web_results :
       (r.blog_id = SavedBlog /\ x.related_search_id = r.id) =>
          \E k \in 0..(NumWebCandidates - 1) : x.url = GeneratedUrl(r.search_text, k)

(***************************************************************************)
(* C25.  Whatever is clicked, the selected phrases of the wizard and of    *)
(* the form, and the selected web results of every phrase, are lists of at *)
(* most 4 entries without duplicates; and a click made while 4 are         *)
(* selected either leaves the selection as it is (the item clicked was not *)
(* selected) or takes the clicked item out of it.                          *)
(***************************************************************************)
C25_Capped(q) ==
  /\ Len(q) <= 4
  /\ \A i, j \in 1..Len(q) : q[i] = q[j] => i = j

C25_ClickWhenFull(old, new) ==
  Len(old) = 4 =>
     \/ new = old
     \/ \E k \in 1..4 : new = SubSeq(old, 1, k - 1) \o SubSeq(old, k + 1, 4)

C25_SelectionsCapped ==
  /\ [](/\ C25_Capped(wizard.selectedSearches)
        /\ C25_Capped(form.selectedSearches)
        /\ \A i \in CandidateIndices : C25_Capped(wizard.selectedWebResultsMap[i]))
  /\ [][/\ (form.isCreating /\ form'.isCreating) =>
             C25_ClickWhenFull(form.selectedSearches, form'.selectedSearches)
        /\ (~WizardClosed /\ wizard'.currentStep # "closed") =>
             /\ C25_ClickWhenFull(wizard.selectedSearches, wizard'.selectedSearches)
             /\ \A i \in CandidateIndices :
                  C25_ClickWhenFull(wizard.selectedWebResultsMap[i],
                                    wizard'.selectedWebResultsMap[i])]_vars

(* Four phrases and four results of a phrase selected, one of them after   *)
(* an item was taken out of a selection.                                   *)
C25_Witness ==
  /\ wizard.currentStep = "web-results"
  /\ Len(wizard.selectedSearches) = 4
  /\ Len(wizard.selectedWebResultsMap[CurrentSearchIdx]) = 4
  /\ Len(wizard.webResultsMap[CurrentSearchIdx]) > 4
  /\ wizard.deselects > 0

(***************************************************************************)
(* C26.  While the wizard shows the web-results step or the pre-landing    *)
(* step, currentSearchIndex is a position of selectedSearches: at least 0  *)
(* and less than the number of selected phrases, whatever Next Search,     *)
(* Back and step buttons were clicked before.                              *)
(***************************************************************************)
C26_IndexInRange ==
  wizard.currentStep \in {"web-results", "pre-landing"} =>
     /\ 0 <= wizard.currentSearchIndex
     /\ wizard.currentSearchIndex < Len(wizard.selectedSearches)

(* Back on the web-results step at its last phrase, after the pre-landing  *)
(* step was visited.                                                       *)
C26_Witness ==
  /\ wizard.currentStep = "web-results"
  /\ wizard.currentSearchIndex = Len(wizard.selectedSearches) - 1
  /\ wizard.backs > 0
  /\ wizard.preLandingMap # {}

(***************************************************************************)
(* C27.  A blog created through the form of BlogsManager has no related    *)
(* search or exactly 4: it has 4 only when 4 phrases were selected at the  *)
(* submit, and then the phrase selected k-th is the one row with wr = k    *)
(* and order_index = k - 1; with any other number of phrases selected the  *)
(* blog is there without a related search.                                 *)
(***************************************************************************)
C27_RowsOfCreated == {r \in db.related_searches : r.blog_id = form.created}

C27_NoneOrFourInOrder ==
  form.created # Null =>
     /\ form.created \in db.blogs
     /\ \/ C27_RowsOfCreated = {}
        \/ /\ Len(form.submitted) = 4
           /\ Cardinality(C27_RowsOfCreated) = 4
           /\ \A k \in 1..4 :
                \E r \in C27_RowsOfCreated :
                  /\ r.wr = k /\ r.order_index = k - 1
                  /\ r.search_text = GeneratedPhrases[form.submitted[k] + 1]
     /\ Len(form.submitted) # 4 => C27_RowsOfCreated = {}

(* A blog created with 4 phrases that were not selected in list order. *)
C27_Witness ==
  /\ form.created # Null
  /\ Cardinality(C27_RowsOfCreated) = 4
  /\ \E k \in 1..3 : form.submitted[k] > form.submitted[k + 1]

(***************************************************************************)
(* C28.  trackEmailSubmission hands no error to handleSubmit: the error    *)
(* notification of the pre-landing page is never shown, and a submit of a  *)
(* non-empty email leaves its loading state only with the success          *)
(* notification shown, the email field cleared and loading false, whether  *)
(* the lookup of the address and the insert of the row succeeded or not;   *)
(* while it is loading, the field, the notification and the store's email  *)
(* rows change only by that end.                                           *)
(***************************************************************************)
C28_SubmitEndsInSuccess ==
  /\ [](reader.toast # "error")
  /\ [][/\ (~reader.loading /\ reader'.loading) => reader.email
        /\ (reader.loading /\ reader.page = "pre_landing"
              /\ (reader'.email # reader.email \/ reader'.toast # reader.toast
                    \/ db'.email_submissions # db.email_submissions
                    \/ ~reader'.loading)) =>
             /\ ~reader'.loading /\ ~reader'.email
             /\ reader'.toast = "success" /\ reader'.submitted]_vars

(* A submit that ended in success although its row was not inserted. *)
C28_Witness ==
  /\ reader.page = "pre_landing"
  /\ reader.submitted /\ ~reader.loading /\ ~reader.email
  /\ reader.toast = "success"
  /\ db.email_submissions = {}

(***************************************************************************)
(* C29.  isGenerating is true exactly while a handler that sets it (a      *)
(* content, web-results or pre-landing generation, or handleSaveAll) is    *)
(* awaiting its request, and isGeneratingImage exactly while an image      *)
(* generation is: the flag is set when the handler starts and, as every    *)
(* request ends, is reset afterwards, on the path of a success and on the  *)
(* path of a failure.  While a save is awaiting, it is the only handler    *)
(* holding isGenerating: Save All is disabled and no second save starts.   *)
(***************************************************************************)
C29_FlagsFollowCalls ==
  /\ [](wizard.isGenerating <=> wizard.calls > 0)
  /\ [](wizard.isGeneratingImage <=> wizard.imageCalls > 0)
  /\ [](wizard.inFlight.kind = "save" => wizard.calls = 1)
  /\ (wizard.isGenerating ~> ~wizard.isGenerating)
  /\ (wizard.isGeneratingImage ~> ~wizard.isGeneratingImage)

(* A save awaiting its inserts after an earlier save failed and reset the  *)
(* flag.                                                                   *)
C29_Witness ==
  /\ wizard.inFlight.kind = "save" /\ wizard.isGenerating
  /\ wizard.failures > 0 /\ wizard.toast = "error"

(***************************************************************************)
(* The blog list of BlogsManager: the rows fetchBlogs listed last (blogs), *)
(* the ticked rows (selectedIds) and the last toast.  status is the        *)
(* blogs.status column of the store, which only this list writes and       *)
(* reads; it is kept beside the list.  Every handler is taken as a whole:  *)
(* one operator works on the list and nothing else writes the store        *)
(* between the awaits of a handler.                                        *)
(***************************************************************************)
ListedAdmin(listing) ==
  [f \in DOMAIN IdleAdmin \cup {"blogs", "status"} |->
     IF f = "blogs" THEN listing
     ELSE IF f = "status" THEN [b \in BlogIds |-> "published"]
     ELSE IdleAdmin[f]]

(* fetchBlogs: if (data) setBlogs(data); a failed select leaves the list. *)
fetchBlogs(listing, d, fetched) == IF fetched THEN d.blogs ELSE listing

(* The statements of handleDelete and handleDeleteSingle up to the delete  *)
(* of the blog row itself.                                                 *)
DeleteChildren(d, id) ==
  LET searchIds == SelectSearchIdsOfBlog(d, id)
      d1 == IF searchIds # {}
            THEN DeleteWebResults(
                   DeletePreLandingConfigs(
                     DeleteAnalyticsOfSearches(
                       DeleteEmailSubmissions(d, searchIds).db, searchIds).db,
                     searchIds).db, searchIds).db
            ELSE d
      d2 == DeleteAnalyticsOfBlog(d1, id).db
  IN DeleteRelatedSearches(d2, SelectSearchIdsOfBlog(d2, id)).db

handleDeleteSingle(d, id) == DeleteBlog(DeleteChildren(d, id), id).db

toggleSelectAll(a) ==
  /\ admin' = [admin EXCEPT ![a].selectedIds =
       IF Cardinality(@) = Cardinality(admin[a].blogs) THEN {} ELSE admin[a].blogs]
  /\ admin' # admin
  /\ UNCHANGED <<db, outsideAdmin>>

toggleSelect(a, id) ==
  /\ id \in admin[a].blogs
  /\ admin' = [admin EXCEPT ![a].selectedIds =
       IF id \in @ THEN @ \ {id} ELSE @ \cup {id}]
  /\ UNCHANGED <<db, outsideAdmin>>

(* The body of handleActivateSelected and handleDeactivateSelected: one    *)
(* update of the status column of the ticked rows of view, then the toast, *)
(* fetchBlogs and the reset of the selection.                              *)
UpdateStatusOfSelected(view, d, status, outcome, fetched) ==
  IF outcome = "error"
  THEN [view EXCEPT !.toast = "error"]
  ELSE [view EXCEPT !.toast = "success",
                    !.status = [b \in BlogIds |->
                       IF b \in view.selectedIds /\ b \in d.blogs
                       THEN status ELSE @[b]],
                    !.blogs = fetchBlogs(@, d, fetched),
                    !.selectedIds = {}]

handleActivateSelected(a, outcome, fetched) ==
  /\ admin[a].selectedIds # {}
  /\ admin' = [admin EXCEPT ![a] =
       UpdateStatusOfSelected(@, db, "published", outcome, fetched)]
  /\ UNCHANGED <<db, outsideAdmin>>

handleDeactivateSelected(a, outcome, fetched) ==
  /\ admin[a].selectedIds # {}
  /\ admin' = [admin EXCEPT ![a] =
       UpdateStatusOfSelected(@, db, "draft", outcome, fetched)]
  /\ UNCHANGED <<db, outsideAdmin>>

(* handleDelete of the row's own delete button; outcome is the fate of     *)
(* the last call, the delete of the blog row.                              *)
handleDelete(a, id, outcome, fetched) ==
  /\ id \in admin[a].blogs
  /\ LET res == IF outcome = "error"
                THEN Rejected(DeleteChildren(db, id))
                ELSE DeleteBlog(DeleteChildren(db, id), id)
     IN /\ db' = res.db
        /\ admin' = [admin EXCEPT ![a] =
             IF res.error
             THEN [@ EXCEPT !.toast = "error"]
             ELSE [@ EXCEPT !.toast = "success",
                            !.blogs = fetchBlogs(@, res.db, fetched)]]
  /\ UNCHANGED outsideAdmin

RECURSIVE DeleteEach(_, _)
DeleteEach(d, order) ==
  IF order = <<>> THEN d
  ELSE DeleteEach(handleDeleteSingle(d, Head(order)), Tail(order))

handleDeleteSelected(a, fetched) ==
  /\ admin[a].selectedIds # {}
  /\ \E order \in Orders(admin[a].selectedIds) :
       /\ db' = DeleteEach(db, order)
       /\ admin' = [admin EXCEPT ![a].toast = "success",
                                 ![a].selectedIds = {},
                                 ![a].blogs = fetchBlogs(@, db', fetched)]
  /\ UNCHANGED outsideAdmin

(***************************************************************************)
(* SpecSelection: one operator on the blog list, ticking rows and using    *)
(* the row and bulk buttons.                                               *)
(***************************************************************************)
InitSelection ==
  /\ db \in BulkStores
  /\ admin = [a \in Admins |-> ListedAdmin(db.blogs)]
  /\ reader = OpenedTab(1, 1, 1)
  /\ form = ClosedForm
  /\ wizard = UnmountedWizard
  /\ service = IdleService
  /\ manager = ClosedPanel
  /\ download = NoDownload

NextSelection ==
  \/ toggleSelectAll(Operator)
  \/ \E id \in BlogIds : toggleSelect(Operator, id)
  \/ \E outcome \in {"ok", "error"}, fetched \in BOOLEAN :
       handleActivateSelected(Operator, outcome, fetched)
  \/ \E outcome \in {"ok", "error"}, fetched \in BOOLEAN :
       handleDeactivateSelected(Operator, outcome, fetched)
  \/ \E id \in BlogIds, outcome \in {"ok", "error"}, fetched \in BOOLEAN :
       handleDelete(Operator, id, outcome, fetched)
  \/ \E fetched \in BOOLEAN : handleDeleteSelected(Operator, fetched)

SpecSelection == InitSelection /\ [][NextSelection]_vars

(***************************************************************************)
(* C30: in BlogsManager, whatever toggleSelect, toggleSelectAll, single    *)
(* delete, bulk delete and bulk activate or deactivate have been used,     *)
(* every id in selectedIds is the id of a blog the list shows, so the      *)
(* selected count and the select-all checkbox                              *)
(* (selectedIds.size = blogs.length) speak of rows that are there.         *)
(***************************************************************************)
C30_SelectedAreListed ==
  \A a \in Admins :
    /\ admin[a].selectedIds \subseteq admin[a].blogs
    /\ (admin[a].blogs # {}
        /\ Cardinality(admin[a].selectedIds) = Cardinality(admin[a].blogs))
         => admin[a].selectedIds = admin[a].blogs

=============================================================================
